---- MODULE Spec2Model ----
(***************************************************************************)
(* Model of the storage and retrieval core of mcp-dm-claude:               *)
(*   src/src/redis_manager/redis_manager.py  (RedisDataManager)            *)
(*   src/src/mcp_server/mcp_server.py        (search / add_rulebook)       *)
(*   src/cli.py                              (search / add_rulebook)       *)
(*                                                                         *)
(* Redis is modelled as a key space of hashes and sets.  Every Redis       *)
(* command is one atomic step; a method that issues several commands is a  *)
(* sequence of steps of one process, so that the states between two        *)
(* commands are states a concurrent client can observe.                    *)
(***************************************************************************)
EXTENDS Integers, Sequences, FiniteSets, TLC

\* ------------------------------------------------------------------------
\* Bounds of the model
\* ------------------------------------------------------------------------
NumProcs == 2          \* concurrent clients of the store
MaxRecords == 2        \* campaign records ever created (uuid4 values drawn)
MaxCalls == 3          \* campaign-data calls started in one behaviour
MaxClock == 1          \* days the clock advances in one behaviour
MaxDaysOld == 1        \* largest days_old given to cleanup_old_data

Procs == 1..NumProcs
Campaigns == {"c1", "c2"}
DataTypes == {"npc", "plot"}

\* uuid.uuid4(): a fresh identifier per call (collisions are not modelled)
UuidNames == <<"u1", "u2", "u3", "u4", "u5", "u6">>
DataIds == {UuidNames[i] : i \in 1..MaxRecords}

\* f"{CAMPAIGN_PREFIX}{campaign_id}:{data_type}:{data_id}"
CampaignKey(cid, dtype, did) == <<cid, dtype, did>>
CampaignKeys == Campaigns \X DataTypes \X DataIds

\* ------------------------------------------------------------------------
\* Conversions done on the way into and out of Redis
\* ------------------------------------------------------------------------
SecondsPerDay == 86400

\* datetime.isoformat(): the date part and the time-of-day part
IsoFormat(t) == <<t \div SecondsPerDay, t % SecondsPerDay>>
\* datetime.fromisoformat(s).timestamp()
FromIsoTimestamp(s) == s[1] * SecondsPerDay + s[2]

\* an int written by hset is stored as its decimal text; int() reads it back
RECURSIVE IntToStr(_)
IntToStr(n) == IF n < 10 THEN <<n>> ELSE Append(IntToStr(n \div 10), n % 10)
RECURSIVE StrToInt(_)
StrToInt(s) == IF Len(s) = 1 THEN s[1]
               ELSE 10 * StrToInt(SubSeq(s, 1, Len(s) - 1)) + s[Len(s)]

\* json.dumps of a dict: the text lists the key/value pairs
JsonDumps(m) == {<<k, m[k]>> : k \in DOMAIN m}
\* json.loads of that text
JsonLoads(s) == [k \in {p[1] : p \in s} |-> (CHOOSE p \in s : p[1] = k)[2]]

\* dict.get(key, default)
DictGet(d, k, default) == IF k \in DOMAIN d THEN d[k] ELSE default
\* dict.update(other)
DictUpdate(d, other) ==
    [k \in DOMAIN d \cup DOMAIN other |-> IF k \in DOMAIN other THEN other[k] ELSE d[k]]

EmptyDict == [k \in {} |-> 0]

\* ------------------------------------------------------------------------
\* Inputs of the campaign operations
\* ------------------------------------------------------------------------
\* data dicts given to store_campaign_data
StoreInputs == { [name |-> "Bob", hp |-> 1],
                 [hp |-> 2, tags |-> <<"pc">>] }
\* updates dicts given to update_campaign_data
UpdateInputs == { [content |-> [hp |-> 3]],
                  [name |-> "Zed", content |-> [lvl |-> 1]],
                  EmptyDict }

VARIABLES
    hashes,          \* Redis hashes under campaign:* : key -> field map
    campaign_index,  \* Redis sets campaign_index:{campaign}
    campaign_type,   \* Redis sets campaign_type:{campaign}:{type}
    now,             \* the wall clock, in seconds
    uuids,           \* uuid4 values drawn so far
    calls,           \* campaign-data calls started so far
    pc,              \* per client: position inside the running method
    loc,             \* per client: arguments and locals of the running method
    ret,             \* per client: the last call and what it returned
    chunks,          \* Redis hashes under chunk:* : key -> field map
    rulebook_idx,    \* Redis sets rulebook:{rulebook}
    system_idx,      \* Redis sets system:{system}
    ctype_idx,       \* Redis sets content_type:{content_type}
    last,            \* the last rulebook call: its arguments and what it returned
    conn,            \* the connection being made by RedisDataManager.__init__
    embedding_service  \* the EmbeddingService: its cache, the cache file, its last call

campVars == <<hashes, campaign_index, campaign_type, now, uuids, calls, pc, loc, ret>>
rbVars == <<chunks, rulebook_idx, system_idx, ctype_idx, last>>
connVars == <<conn>>
embVars == <<embedding_service>>

vars == <<hashes, campaign_index, campaign_type, now, uuids, calls, pc, loc, ret,
          chunks, rulebook_idx, system_idx, ctype_idx, last, conn, embedding_service>>

\* ------------------------------------------------------------------------
\* Redis commands on the campaign key space
\* ------------------------------------------------------------------------
NoHash == EmptyDict
\* EXISTS key: Redis keeps no empty hash
HExists(key) == DOMAIN hashes[key] # {}
\* HSET key mapping: sets the given fields, keeps the others
HSetMapping(h, m) ==
    [f \in DOMAIN h \cup DOMAIN m |-> IF f \in DOMAIN m THEN m[f] ELSE h[f]]
\* a comparison that is satisfied by whatever the field holds
HGetIsAny(key, field, value) ==
    field \in DOMAIN hashes[key]

\* HGET key field = value (a missing field or key yields None, equal to nothing)
HGetIs(key, field, value) ==
    /\ field \in DOMAIN hashes[key]
    /\ hashes[key][field] = value

NoLoc == [op |-> "none"]
NoRet == [op |-> "none"]

InitCampaign ==
    /\ hashes = [k \in CampaignKeys |-> NoHash]
    /\ campaign_index = [c \in Campaigns |-> {}]
    /\ campaign_type = [ct \in Campaigns \X DataTypes |-> {}]
    /\ now = 0
    /\ uuids = 0
    /\ calls = 0
    /\ pc = [p \in Procs |-> "idle"]
    /\ loc = [p \in Procs |-> NoLoc]
    /\ ret = [p \in Procs |-> NoRet]

\* A call may start when the client is idle; in the sequential specification
\* only when no other call is in progress.
MayStart(p, concurrent) ==
    /\ pc[p] = "idle"
    /\ calls < MaxCalls
    /\ concurrent \/ \A q \in Procs : pc[q] = "idle"

Goto(p, label) == pc' = [pc EXCEPT ![p] = label]
Return(p, r) ==
    /\ pc' = [pc EXCEPT ![p] = "idle"]
    /\ loc' = [loc EXCEPT ![p] = NoLoc]
    /\ ret' = [ret EXCEPT ![p] = r]

\* no call is in progress
AllIdle == \A p \in Procs : pc[p] = "idle"

\* time passes
Tick ==
    /\ now < MaxClock * SecondsPerDay
    /\ now' = now + SecondsPerDay
    /\ UNCHANGED <<hashes, campaign_index, campaign_type, uuids, calls, pc, loc, ret>>
    /\ UNCHANGED rbVars
    /\ UNCHANGED connVars
    /\ UNCHANGED embVars


\* ------------------------------------------------------------------------
\* store_campaign_data(campaign_id, data_type, data)
\* ------------------------------------------------------------------------
\* the CampaignData object as the field mapping written by hset
CampaignDict(cid, dtype, did, data, t) ==
    [ id          |-> did,
      campaign_id |-> cid,
      data_type   |-> dtype,
      name        |-> DictGet(data, "name", ""),
      content     |-> JsonDumps(data),
      created_at  |-> IsoFormat(t),
      updated_at  |-> IsoFormat(t),
      version     |-> IntToStr(1),
      tags        |-> JsonDumps(DictGet(data, "tags", <<>>)) ]

\* uuid4, build the record, HSET campaign_key
StoreHset(p, concurrent) ==
    \E cid \in Campaigns, dtype \in DataTypes, data \in StoreInputs :
        LET did == UuidNames[uuids + 1]
            key == CampaignKey(cid, dtype, did)
        IN  /\ MayStart(p, concurrent)
            /\ uuids < MaxRecords
            /\ uuids' = uuids + 1
            /\ calls' = calls + 1
            /\ hashes' = [hashes EXCEPT ![key] =
                             HSetMapping(@, CampaignDict(cid, dtype, did, data, now))]
            /\ loc' = [loc EXCEPT ![p] =
                          [op |-> "store", cid |-> cid, dtype |-> dtype,
                           did |-> did, key |-> key]]
            /\ Goto(p, "store_sadd_index")
            /\ UNCHANGED <<campaign_index, campaign_type, now, ret>>
            /\ UNCHANGED rbVars
            /\ UNCHANGED connVars
            /\ UNCHANGED embVars

\* SADD campaign_index:{campaign_id} campaign_key
StoreSaddIndex(p) ==
    /\ pc[p] = "store_sadd_index"
    /\ campaign_index' = [campaign_index EXCEPT ![loc[p].cid] = @ \cup {loc[p].key}]
    /\ Goto(p, "store_sadd_type")
    /\ UNCHANGED <<hashes, campaign_type, now, uuids, calls, loc, ret>>
    /\ UNCHANGED rbVars
    /\ UNCHANGED connVars
    /\ UNCHANGED embVars

\* SADD campaign_type:{campaign_id}:{data_type} campaign_key; return data_id
StoreSaddType(p) ==
    /\ pc[p] = "store_sadd_type"
    /\ campaign_type' = [campaign_type EXCEPT ![<<loc[p].cid, loc[p].dtype>>] =
                            @ \cup {loc[p].key}]
    /\ Return(p, [op |-> "store", val |-> loc[p].did])
    /\ UNCHANGED <<hashes, campaign_index, now, uuids, calls>>
    /\ UNCHANGED rbVars
    /\ UNCHANGED connVars
    /\ UNCHANGED embVars

\* ------------------------------------------------------------------------
\* update_campaign_data(campaign_id, data_id, updates)
\* ------------------------------------------------------------------------
UpdRet(p, v) == [op |-> "update", val |-> v]

\* SMEMBERS campaign_index:{campaign_id}
UpdSmembers(p, concurrent) ==
    \E cid \in Campaigns, did \in DataIds, updates \in UpdateInputs :
        /\ MayStart(p, concurrent)
        /\ calls' = calls + 1
        /\ IF campaign_index[cid] = {}
           THEN /\ pc' = pc
                /\ loc' = loc
                /\ ret' = [ret EXCEPT ![p] = [op |-> "update", val |-> FALSE]]
           ELSE /\ Goto(p, "upd_find")
                /\ loc' = [loc EXCEPT ![p] =
                              [op |-> "update", cid |-> cid, did |-> did,
                               updates |-> updates, todo |-> campaign_index[cid]]]
                /\ ret' = ret
        /\ UNCHANGED <<hashes, campaign_index, campaign_type, now, uuids>>
        /\ UNCHANGED rbVars
        /\ UNCHANGED connVars
        /\ UNCHANGED embVars

\* the search loop: HGET key id, for the keys in the order the set yields them
UpdFind(p) ==
    /\ pc[p] = "upd_find"
    /\ \E key \in loc[p].todo :
          IF HGetIs(key, "id", loc[p].did)
          THEN /\ loc' = [loc EXCEPT ![p] =
                             [op |-> "update", cid |-> loc[p].cid, did |-> loc[p].did,
                              updates |-> loc[p].updates, key |-> key]]
               /\ Goto(p, "upd_hgetall")
               /\ ret' = ret
          ELSE IF loc[p].todo = {key}
          THEN Return(p, UpdRet(p, FALSE))
          ELSE /\ loc' = [loc EXCEPT ![p].todo = @ \ {key}]
               /\ UNCHANGED <<pc, ret>>
    /\ UNCHANGED <<hashes, campaign_index, campaign_type, now, uuids, calls>>
    /\ UNCHANGED rbVars
    /\ UNCHANGED connVars
    /\ UNCHANGED embVars

\* HGETALL target_key
UpdHgetall(p) ==
    /\ pc[p] = "upd_hgetall"
    /\ LET cur == hashes[loc[p].key]
       IN  IF {"content", "name", "version", "tags"} \subseteq DOMAIN cur
           THEN /\ loc' = [loc EXCEPT ![p] =
                              [op |-> "update", cid |-> loc[p].cid, did |-> loc[p].did,
                               updates |-> loc[p].updates, key |-> loc[p].key,
                               cur |-> cur]]
                /\ Goto(p, "upd_hset")
                /\ ret' = ret
           ELSE \* no hash (return False) or a missing field (KeyError, return False)
                Return(p, UpdRet(p, FALSE))
    /\ UNCHANGED <<hashes, campaign_index, campaign_type, now, uuids, calls>>
    /\ UNCHANGED rbVars
    /\ UNCHANGED connVars
    /\ UNCHANGED embVars

\* an update that writes the version back as it read it
SameVersion(stored) == StrToInt(stored)

\* "version": int(current_data["version"]) + 1
NextVersion(stored) == StrToInt(stored) + 1

\* an update that puts the update's content map in the place of the old one
UpdatedDataReplace(cur, updates, t) ==
    [ name       |-> DictGet(updates, "name", cur.name),
      content    |-> JsonDumps(DictGet(updates, "content", EmptyDict)),
      updated_at |-> IsoFormat(t),
      version    |-> IntToStr(NextVersion(cur.version)),
      tags       |-> JsonDumps(DictGet(updates, "tags", JsonLoads(cur.tags))) ]

\* the mapping written back by update_campaign_data
UpdatedData(cur, updates, t) ==
    [ name       |-> DictGet(updates, "name", cur.name),
      content    |-> JsonDumps(DictUpdate(JsonLoads(cur.content),
                                          DictGet(updates, "content", EmptyDict))),
      updated_at |-> IsoFormat(t),
      version    |-> IntToStr(NextVersion(cur.version)),
      tags       |-> JsonDumps(DictGet(updates, "tags", JsonLoads(cur.tags))) ]

\* HSET target_key updated_data; return True
UpdHset(p) ==
    /\ pc[p] = "upd_hset"
    /\ hashes' = [hashes EXCEPT ![loc[p].key] =
                     HSetMapping(@, UpdatedData(loc[p].cur, loc[p].updates, now))]
    /\ Return(p, UpdRet(p, TRUE))
    /\ UNCHANGED <<campaign_index, campaign_type, now, uuids, calls>>
    /\ UNCHANGED rbVars
    /\ UNCHANGED connVars
    /\ UNCHANGED embVars


\* ------------------------------------------------------------------------
\* delete_campaign_data(campaign_id, data_id)
\* ------------------------------------------------------------------------
DelRet(p, v) == [op |-> "delete", val |-> v]

\* SMEMBERS campaign_index:{campaign_id}
DelSmembers(p, concurrent) ==
    \E cid \in Campaigns, did \in DataIds :
        /\ MayStart(p, concurrent)
        /\ calls' = calls + 1
        /\ IF campaign_index[cid] = {}
           THEN /\ pc' = pc
                /\ loc' = loc
                /\ ret' = [ret EXCEPT ![p] = [op |-> "delete", val |-> FALSE]]
           ELSE /\ Goto(p, "del_find")
                /\ loc' = [loc EXCEPT ![p] =
                              [op |-> "delete", cid |-> cid, did |-> did,
                               todo |-> campaign_index[cid]]]
                /\ ret' = ret
        /\ UNCHANGED <<hashes, campaign_index, campaign_type, now, uuids>>
        /\ UNCHANGED rbVars
        /\ UNCHANGED connVars
        /\ UNCHANGED embVars

\* the search loop: HGET key id
DelFind(p) ==
    /\ pc[p] = "del_find"
    /\ \E key \in loc[p].todo :
          IF HGetIs(key, "id", loc[p].did)
          THEN /\ loc' = [loc EXCEPT ![p] =
                             [op |-> "delete", cid |-> loc[p].cid, did |-> loc[p].did,
                              key |-> key]]
               /\ Goto(p, "del_srem_index")
               /\ ret' = ret
          ELSE IF loc[p].todo = {key}
          THEN Return(p, DelRet(p, FALSE))
          ELSE /\ loc' = [loc EXCEPT ![p].todo = @ \ {key}]
               /\ UNCHANGED <<pc, ret>>
    /\ UNCHANGED <<hashes, campaign_index, campaign_type, now, uuids, calls>>
    /\ UNCHANGED rbVars
    /\ UNCHANGED connVars
    /\ UNCHANGED embVars

\* SREM campaign_index:{campaign_id} key
DelSremIndex(p) ==
    /\ pc[p] = "del_srem_index"
    /\ campaign_index' = [campaign_index EXCEPT ![loc[p].cid] = @ \ {loc[p].key}]
    /\ Goto(p, "del_hget_type")
    /\ UNCHANGED <<hashes, campaign_type, now, uuids, calls, loc, ret>>
    /\ UNCHANGED rbVars
    /\ UNCHANGED connVars
    /\ UNCHANGED embVars

\* HGET key data_type
DelHgetType(p) ==
    /\ pc[p] = "del_hget_type"
    /\ IF "data_type" \in DOMAIN hashes[loc[p].key]
       THEN /\ loc' = [loc EXCEPT ![p] =
                          [op |-> "delete", cid |-> loc[p].cid, did |-> loc[p].did,
                           key |-> loc[p].key,
                           dtype |-> hashes[loc[p].key].data_type]]
            /\ Goto(p, "del_srem_type")
       ELSE /\ loc' = loc
            /\ Goto(p, "del_delete")
    /\ UNCHANGED <<hashes, campaign_index, campaign_type, now, uuids, calls, ret>>
    /\ UNCHANGED rbVars
    /\ UNCHANGED connVars
    /\ UNCHANGED embVars

\* SREM campaign_type:{campaign_id}:{data_type} key
DelSremType(p) ==
    /\ pc[p] = "del_srem_type"
    /\ campaign_type' = [campaign_type EXCEPT ![<<loc[p].cid, loc[p].dtype>>] =
                            @ \ {loc[p].key}]
    /\ Goto(p, "del_delete")
    /\ UNCHANGED <<hashes, campaign_index, now, uuids, calls, loc, ret>>
    /\ UNCHANGED rbVars
    /\ UNCHANGED connVars
    /\ UNCHANGED embVars

\* DEL key; return True
DelDelete(p) ==
    /\ pc[p] = "del_delete"
    /\ hashes' = [hashes EXCEPT ![loc[p].key] = NoHash]
    /\ Return(p, DelRet(p, TRUE))
    /\ UNCHANGED <<campaign_index, campaign_type, now, uuids, calls>>
    /\ UNCHANGED rbVars
    /\ UNCHANGED connVars
    /\ UNCHANGED embVars

\* ------------------------------------------------------------------------
\* cleanup_old_data(days_old)
\* ------------------------------------------------------------------------
\* cutoff_date = datetime.now().timestamp() - (days_old * 24 * 60 * 60)
CutoffDate(t, days_old) == t - (days_old * 24 * 60 * 60)

\* what cleanup_old_data does to a key it finds too old
CleanupRemove(key) ==
    /\ hashes' = [hashes EXCEPT ![key] = NoHash]
    /\ UNCHANGED <<campaign_index, campaign_type>>

\* cutoff, then SCAN campaign:* (the record hashes; the index sets are named
\* campaign_index:* and campaign_type:* and do not match)
ClnScan(p, concurrent) ==
    \E days_old \in 0..MaxDaysOld :
        LET found == {k \in CampaignKeys : HExists(k)}
        IN  /\ MayStart(p, concurrent)
            /\ calls' = calls + 1
            /\ IF found = {}
               THEN /\ pc' = pc
                    /\ loc' = loc
                    /\ ret' = [ret EXCEPT ![p] = [op |-> "cleanup", val |-> 0]]
               ELSE /\ Goto(p, "cln_hget")
                    /\ loc' = [loc EXCEPT ![p] =
                                  [op |-> "cleanup", todo |-> found, deleted |-> 0,
                                   cutoff |-> CutoffDate(now, days_old)]]
                    /\ ret' = ret
            /\ UNCHANGED <<hashes, campaign_index, campaign_type, now, uuids>>
            /\ UNCHANGED rbVars
            /\ UNCHANGED connVars
            /\ UNCHANGED embVars

\* HGET key updated_at and the age test
ClnHget(p) ==
    /\ pc[p] = "cln_hget"
    /\ \E key \in loc[p].todo :
          IF /\ "updated_at" \in DOMAIN hashes[key]
             /\ FromIsoTimestamp(hashes[key].updated_at) < loc[p].cutoff
          THEN /\ loc' = [loc EXCEPT ![p] =
                             [op |-> "cleanup", todo |-> loc[p].todo \ {key},
                              deleted |-> loc[p].deleted, cutoff |-> loc[p].cutoff,
                              key |-> key]]
               /\ Goto(p, "cln_delete")
               /\ ret' = ret
          ELSE IF loc[p].todo = {key}
          THEN Return(p, [op |-> "cleanup", val |-> loc[p].deleted])
          ELSE /\ loc' = [loc EXCEPT ![p].todo = @ \ {key}]
               /\ UNCHANGED <<pc, ret>>
    /\ UNCHANGED <<hashes, campaign_index, campaign_type, now, uuids, calls>>
    /\ UNCHANGED rbVars
    /\ UNCHANGED connVars
    /\ UNCHANGED embVars

\* DEL key; deleted_count += 1
ClnDelete(p) ==
    /\ pc[p] = "cln_delete"
    /\ CleanupRemove(loc[p].key)
    /\ IF loc[p].todo = {}
       THEN Return(p, [op |-> "cleanup", val |-> loc[p].deleted + 1])
       ELSE /\ loc' = [loc EXCEPT ![p] =
                          [op |-> "cleanup", todo |-> loc[p].todo,
                           deleted |-> loc[p].deleted + 1, cutoff |-> loc[p].cutoff]]
            /\ Goto(p, "cln_hget")
            /\ ret' = ret
    /\ UNCHANGED <<now, uuids, calls>>
    /\ UNCHANGED rbVars
    /\ UNCHANGED connVars
    /\ UNCHANGED embVars

\* ------------------------------------------------------------------------
\* _create_connection(): the retry loop of RedisDataManager.__init__
\* ------------------------------------------------------------------------
MaxRetries == 7        \* largest max_retries a manager is constructed with

\* what client.ping() can do: return, raise redis.ConnectionError (caught by
\* the loop), or raise another error such as redis.TimeoutError (not caught)
PingOutcomes == {"ok", "ConnectionError", "TimeoutError"}

\* 2 ** attempt
RECURSIVE Pow2(_)
Pow2(n) == IF n = 0 THEN 1 ELSE 2 * Pow2(n - 1)

\* the state at the head of `for attempt in range(self.max_retries)`
NewConnection(max_retries) ==
    [ max_retries |-> max_retries, attempt |-> 0, status |-> "loop",
      pings |-> <<>>, slept |-> <<>>, error |-> "none" ]

\* a manager whose constructor has returned: the state the campaign and
\* rulebook operations run in
InitConnected ==
    conn = [NewConnection(3) EXCEPT !.status = "connected", !.pings = <<"ok">>]

\* the constructor is entered with some max_retries
InitConnect == \E max_retries \in 0..MaxRetries : conn = NewConnection(max_retries)

\* a loop that sleeps after every failed attempt, the last one too
RetryAlways(attempt, max_retries) == TRUE

\* if attempt < self.max_retries - 1
RetryAllowed(attempt, max_retries) == attempt < max_retries - 1

\* one pass of the loop body: redis.Redis(...), client.ping()
ConnPing ==
    /\ conn.status = "loop"
    /\ conn.attempt < conn.max_retries
    /\ \E outcome \in PingOutcomes :
          LET pinged == [conn EXCEPT !.pings = Append(@, outcome)]
          IN  conn' =
                IF outcome = "ok"
                THEN [pinged EXCEPT !.status = "connected"]
                ELSE IF outcome = "ConnectionError"
                THEN IF RetryAllowed(conn.attempt, conn.max_retries)
                     THEN [pinged EXCEPT !.status = "sleep"]
                     ELSE [pinged EXCEPT !.status = "raised", !.error = outcome]
                ELSE [pinged EXCEPT !.status = "raised", !.error = outcome]
    /\ UNCHANGED campVars
    /\ UNCHANGED rbVars
    /\ UNCHANGED embVars

\* time.sleep(2 ** attempt) returns; the loop goes to the next attempt
ConnSleep ==
    /\ conn.status = "sleep"
    /\ conn' = [conn EXCEPT !.slept = Append(@, Pow2(conn.attempt)),
                            !.attempt = @ + 1, !.status = "loop"]
    /\ UNCHANGED campVars
    /\ UNCHANGED rbVars
    /\ UNCHANGED embVars

\* the loop is exhausted: raise redis.ConnectionError("Failed to connect ...")
ConnExhausted ==
    /\ conn.status = "loop"
    /\ conn.attempt >= conn.max_retries
    /\ conn' = [conn EXCEPT !.status = "raised", !.error = "ConnectionError"]
    /\ UNCHANGED campVars
    /\ UNCHANGED rbVars
    /\ UNCHANGED embVars

\* ------------------------------------------------------------------------
\* EmbeddingService: state
\* ------------------------------------------------------------------------
\* the cache file: absent, or the JSON text of a cache
NoFile == [exists |-> FALSE]
\* _save_cache: json.dump keeps the entries and their order
SaveCache(cache) == [exists |-> TRUE, json |-> cache]
\* _load_cache: the entries of the file, none when there is no file
LoadCache(file) == IF file.exists THEN file.json ELSE <<>>

\* EmbeddingService(cache_embeddings) over a cache file.  self.cache is a
\* dict, which keeps its entries in the order they were added: a sequence of
\* [key, vector] entries.  embedded is the set of texts a call has returned a
\* vector for since the cache last lost entries (kept for the properties, not
\* by the code); call is the last call.
NewService(cache_embeddings, file) ==
    [ cache_embeddings |-> cache_embeddings,
      cache |-> LoadCache(file),
      file |-> file,
      embedded |-> {},
      call |-> [op |-> "none"] ]

\* a service constructed with the default cache_embeddings and no cache file
InitEmbedding == embedding_service = NewService(TRUE, NoFile)

\* ------------------------------------------------------------------------
\* Rulebook chunks
\* ------------------------------------------------------------------------
MaxBatch == 2          \* chunks in one store_rulebook_content call
MaxResults == 2        \* largest max_results of a search

Rulebooks == {"X", "Y"}
Systems == {"S1", "S2"}
ContentTypes == {"rule", "spell"}
ChunkIds == {"A", "B", "C", "D"}

\* f"{CHUNK_PREFIX}{chunk.id}"
ChunkKey(id) == <<"chunk", id>>
ChunkKeys == {ChunkKey(id) : id \in ChunkIds}

\* Optional[List[...]]: None, or a list
PyNone == [is_none |-> TRUE]
PyList(items) == [is_none |-> FALSE, items |-> items]

\* A ContentChunk.  Text is a sequence of characters; the embeddings are
\* chosen with integral norms so that the square roots of the cosine are exact.
Chunk(id, rb, sys, ct, title, content, emb) ==
    [ id |-> id, rulebook |-> rb, system |-> sys, content_type |-> ct,
      title |-> title, content |-> content, page_number |-> 1,
      section_path |-> <<title>>, embedding |-> emb,
      metadata |-> [section_level |-> 1], tables |-> PyList(<<>>) ]

ChunkPool ==
    { Chunk("A", "X", "S1", "spell", <<"F", "i">>, <<"a", "b">>, <<1, 0, 0, 0>>),
      \* chunk A of the same document, ingested again under another system
      Chunk("A", "X", "S2", "spell", <<"F", "i">>, <<"a", "b">>, <<3, 4, 0, 0>>),
      Chunk("B", "X", "S2", "rule", <<"a", "b">>, <<"f", "I", "x">>, <<7, 1, 1, 7>>),
      Chunk("C", "Y", "S1", "rule", <<"F", "i">>, <<"x", "f", "i">>, <<4, 3, 0, 0>>),
      Chunk("D", "Y", "S2", "spell", <<"z">>, <<"z", "z">>, <<1, 0, 0, 0>>),
      \* chunk D before its embedding was generated
      Chunk("D", "Y", "S2", "spell", <<"z">>, <<"z", "z">>, <<>>) }

\* the lists of chunks given to store_rulebook_content
Batches == UNION {[1..n -> ChunkPool] : n \in 0..MaxBatch}

InitRulebook ==
    /\ chunks = [k \in ChunkKeys |-> NoHash]
    /\ rulebook_idx = [r \in Rulebooks |-> {}]
    /\ system_idx = [s \in Systems |-> {}]
    /\ ctype_idx = [t \in ContentTypes |-> {}]
    /\ last = [op |-> "none"]

Init == InitCampaign /\ InitRulebook /\ InitConnected /\ InitEmbedding

\* the chunk key space as one value
Db == [chunks |-> chunks, rulebook |-> rulebook_idx,
       system |-> system_idx, content_type |-> ctype_idx]

\* ------------------------------------------------------------------------
\* store_rulebook_content(content)
\* ------------------------------------------------------------------------
\* dataclasses.asdict(table): a Table object becomes a plain dict
AsDict(table) == [f \in DOMAIN table \ {"cls"} |-> table[f]]

\* [asdict(table) for table in chunk.tables] if chunk.tables else []
TablesData(tables) ==
    IF tables.is_none \/ tables.items = <<>> THEN PyList(<<>>)
    ELSE PyList([i \in DOMAIN tables.items |-> AsDict(tables.items[i])])

\* chunk_data, the dict that is serialised into the "data" field
ChunkData(chunk) ==
    [ id |-> chunk.id, rulebook |-> chunk.rulebook, system |-> chunk.system,
      content_type |-> chunk.content_type, title |-> chunk.title,
      content |-> chunk.content, page_number |-> chunk.page_number,
      section_path |-> chunk.section_path, embedding |-> chunk.embedding,
      metadata |-> chunk.metadata, tables |-> TablesData(chunk.tables) ]

\* the four commands the loop body queues for one chunk
ChunkCommands(chunk) ==
    << [cmd |-> "hset", key |-> ChunkKey(chunk.id),
        mapping |-> [ data |-> JsonDumps(ChunkData(chunk)),
                      rulebook |-> chunk.rulebook, system |-> chunk.system,
                      content_type |-> chunk.content_type, title |-> chunk.title ]],
       [cmd |-> "sadd", index |-> "rulebook", name |-> chunk.rulebook,
        key |-> ChunkKey(chunk.id)],
       [cmd |-> "sadd", index |-> "system", name |-> chunk.system,
        key |-> ChunkKey(chunk.id)],
       [cmd |-> "sadd", index |-> "content_type", name |-> chunk.content_type,
        key |-> ChunkKey(chunk.id)] >>

\* the command stack of the pipeline after the loop over content
RECURSIVE PipelineCommands(_)
PipelineCommands(content) ==
    IF content = <<>> THEN <<>>
    ELSE PipelineCommands(SubSeq(content, 1, Len(content) - 1))
         \o ChunkCommands(content[Len(content)])

\* a SADD that takes out a member that is already in the set
ApplyCommandToggle(db, c) ==
    IF c.cmd = "hset"
    THEN [db EXCEPT !.chunks[c.key] = HSetMapping(@, c.mapping)]
    ELSE [db EXCEPT ![c.index][c.name] = IF c.key \in @ THEN @ \ {c.key} ELSE @ \cup {c.key}]

\* one queued command applied to the key space
ApplyCommand(db, c) ==
    IF c.cmd = "hset"
    THEN [db EXCEPT !.chunks[c.key] = HSetMapping(@, c.mapping)]
    ELSE [db EXCEPT ![c.index][c.name] = @ \cup {c.key}]

RECURSIVE ApplyCommands(_, _)
ApplyCommands(db, cmds) ==
    IF cmds = <<>> THEN db
    ELSE ApplyCommand(ApplyCommands(db, SubSeq(cmds, 1, Len(cmds) - 1)), cmds[Len(cmds)])

\* a pipeline that is no transaction: the commands up to the failure have acted
PipeExecuteNoTransaction(db, cmds, ok) ==
    IF ok THEN ApplyCommands(db, cmds)
    ELSE ApplyCommands(db, SubSeq(cmds, 1, Len(cmds) \div 2))

\* pipe.execute() of redis_client.pipeline() (MULTI ... EXEC): the queued
\* commands act as one step, or the call raises and none has acted
PipeExecute(db, cmds, ok) ==
    IF ok THEN ApplyCommands(db, cmds) ELSE db

\* _handle_add_rulebook / cli add_rulebook from the chunk list on: store the
\* chunks; an exception of store_rulebook_content is reported as an error
AddRulebook ==
    \E content \in Batches, ok \in BOOLEAN :
        LET db == PipeExecute(Db, PipelineCommands(content), ok)
        IN  /\ last.op = "none"
            /\ chunks' = db.chunks
            /\ rulebook_idx' = db.rulebook
            /\ system_idx' = db.system
            /\ ctype_idx' = db.content_type
            /\ last' = [op |-> "add_rulebook", content |-> content,
                        result |-> IF ok THEN "success" ELSE "error"]
            /\ UNCHANGED campVars
            /\ UNCHANGED connVars
            /\ UNCHANGED embVars

\* the caller has taken the result of its call
TakeResult ==
    /\ last.op # "none"
    /\ last' = [op |-> "none"]
    /\ UNCHANGED <<chunks, rulebook_idx, system_idx, ctype_idx>>
    /\ UNCHANGED campVars
    /\ UNCHANGED connVars
    /\ UNCHANGED embVars

\* ------------------------------------------------------------------------
\* Text and numbers of the search
\* ------------------------------------------------------------------------
\* str.lower() on the letters that occur
Lower(c) == CASE c = "F" -> "f" [] c = "I" -> "i" [] c = "B" -> "b" [] OTHER -> c
LowerStr(s) == [i \in 1..Len(s) |-> Lower(s[i])]
\* q in t
Contains(q, t) == \E i \in 0..(Len(t) - Len(q)) : SubSeq(t, i + 1, i + Len(q)) = q
\* not text or not text.strip()
Whitespace == {" ", "\n"}
IsBlank(text) == \A i \in 1..Len(text) : text[i] \in Whitespace

\* a score is a fraction <<numerator, denominator>> with a positive denominator
Geq(a, b) == a[1] * b[2] >= b[1] * a[2]
Gt(a, b) == a[1] * b[2] > b[1] * a[2]
Zero == <<0, 1>>

RECURSIVE DotProduct(_, _)
DotProduct(a, b) ==
    IF a = <<>> THEN 0
    ELSE DotProduct(SubSeq(a, 1, Len(a) - 1), SubSeq(b, 1, Len(b) - 1))
         + a[Len(a)] * b[Len(b)]
\* x ** 0.5, on the squares the embeddings are chosen to give
Sqrt(n) == CHOOSE r \in 0..n : r * r = n

\* _cosine_similarity(vec1, vec2)
CosineSimilarity(vec1, vec2) ==
    IF vec1 = <<>> \/ vec2 = <<>> \/ Len(vec1) # Len(vec2) THEN Zero
    ELSE LET magnitude1 == Sqrt(DotProduct(vec1, vec1))
             magnitude2 == Sqrt(DotProduct(vec2, vec2))
         IN  IF magnitude1 = 0 \/ magnitude2 = 0 THEN Zero
             ELSE <<DotProduct(vec1, vec2), magnitude1 * magnitude2>>

\* list.sort(key=score, reverse=True): descending, equal scores keep their order
InsertDesc(sorted, x) ==
    LET n == Cardinality({i \in 1..Len(sorted) : Geq(sorted[i].score, x.score)})
    IN  SubSeq(sorted, 1, n) \o <<x>> \o SubSeq(sorted, n + 1, Len(sorted))
RECURSIVE SortDesc(_)
SortDesc(s) ==
    IF s = <<>> THEN <<>>
    ELSE InsertDesc(SortDesc(SubSeq(s, 1, Len(s) - 1)), s[Len(s)])

\* seq[:n]
Truncate(seq, n) == SubSeq(seq, 1, IF Len(seq) < n THEN Len(seq) ELSE n)

\* ------------------------------------------------------------------------
\* Inputs of the search
\* ------------------------------------------------------------------------
Queries == { <<"f", "i">>, <<"a", "B">>, <<"q">>, <<" ">>, <<>> }
\* SentenceTransformer.encode(text.strip()): a fixed function of the text
Encode(text) ==
    CASE text = <<"f", "i">> -> <<1, 0, 0, 0>>
      [] text = <<"a", "B">> -> <<4, 3, 0, 0>>
      [] text = <<"a", "a">> -> <<0, 1, 0, 0>>
      [] text = <<"b", "b">> -> <<0, 0, 0, 1>>
      [] OTHER -> <<0, 0, 1, 0>>
QueryEmbeddings == {<<1, 0, 0, 0>>, <<4, 3, 0, 0>>, <<0, 0, 1, 0>>}
\* similarity_threshold: the default 0.7, and 0.8
Thresholds == {<<7, 10>>, <<4, 5>>}
\* filter maps over rulebook, system and content_type ("Z" names no rulebook)
FilterMaps ==
    UNION { [dims -> Rulebooks \cup Systems \cup ContentTypes \cup {"Z"}] :
            dims \in SUBSET {"rulebook", "system", "content_type"} }
Filters ==
    {f \in FilterMaps :
        /\ "rulebook" \in DOMAIN f => f.rulebook \in Rulebooks \cup {"Z"}
        /\ "system" \in DOMAIN f => f.system \in Systems
        /\ "content_type" \in DOMAIN f => f.content_type \in ContentTypes}
\* an argument that is not given
NoArg == "none"

\* ------------------------------------------------------------------------
\* _get_filtered_chunks(filters)
\* ------------------------------------------------------------------------
\* SCAN chunk:*
ScanChunks == {k \in DOMAIN chunks : chunks[k] # NoHash}
\* SMEMBERS of an index set; a set that was never written is empty
Smembers(idx, name) == IF name \in DOMAIN idx THEN idx[name] ELSE {}

\* a filter that unites the index sets instead of intersecting them
FilteredChunksUnion(filters) ==
    IF DOMAIN filters = {} THEN ScanChunks
    ELSE ScanChunks \cap
         ( (IF "rulebook" \in DOMAIN filters
            THEN Smembers(rulebook_idx, filters.rulebook) ELSE {})
           \cup (IF "system" \in DOMAIN filters
                 THEN Smembers(system_idx, filters.system) ELSE {})
           \cup (IF "content_type" \in DOMAIN filters
                 THEN Smembers(ctype_idx, filters.content_type) ELSE {}) )

FilteredChunks(filters) ==
    IF DOMAIN filters = {} THEN ScanChunks
    ELSE LET byRulebook == IF "rulebook" \in DOMAIN filters
                           THEN ScanChunks \cap Smembers(rulebook_idx, filters.rulebook)
                           ELSE ScanChunks
             bySystem == IF "system" \in DOMAIN filters
                         THEN byRulebook \cap Smembers(system_idx, filters.system)
                         ELSE byRulebook
         IN  IF "content_type" \in DOMAIN filters
             THEN bySystem \cap Smembers(ctype_idx, filters.content_type)
             ELSE bySystem

\* the orders in which a key list can come back (SCAN order, set iteration order)
Orders(S) == {o \in [1..Cardinality(S) -> S] : \A i, j \in 1..Cardinality(S) : o[i] = o[j] => i = j}

GetFilteredChunks ==
    \E filters \in Filters :
        /\ last.op = "none"
        /\ \E order \in Orders(FilteredChunks(filters)) :
              last' = [op |-> "get_filtered_chunks", filters |-> filters, keys |-> order]
        /\ UNCHANGED <<chunks, rulebook_idx, system_idx, ctype_idx>>
        /\ UNCHANGED campVars
        /\ UNCHANGED connVars
        /\ UNCHANGED embVars

\* ------------------------------------------------------------------------
\* vector_search(query_embedding, filters, max_results, similarity_threshold)
\* ------------------------------------------------------------------------
\* json.loads(hget(chunk_key, "data"))
ChunkDict(key) == JsonLoads(chunks[key].data)

\* a comparison that leaves out the boundary
AboveThreshold(similarity, similarity_threshold) ==
    Gt(similarity, similarity_threshold)

\* similarity >= similarity_threshold
MeetsThreshold(similarity, similarity_threshold) ==
    Geq(similarity, similarity_threshold)

\* the loop over chunk_keys: the entries appended to similarities, in key order
RECURSIVE Similarities(_, _, _)
Similarities(keys, query_embedding, similarity_threshold) ==
    IF keys = <<>> THEN <<>>
    ELSE LET before == Similarities(SubSeq(keys, 1, Len(keys) - 1),
                                    query_embedding, similarity_threshold)
             key == keys[Len(keys)]
         IN  IF "data" \notin DOMAIN chunks[key] THEN before
             ELSE LET chunk_embedding == ChunkDict(key).embedding
                      similarity == CosineSimilarity(query_embedding, chunk_embedding)
                  IN  IF /\ chunk_embedding # <<>>
                         /\ MeetsThreshold(similarity, similarity_threshold)
                      THEN Append(before, [id |-> ChunkDict(key).id,
                                           score |-> similarity,
                                           match_type |-> "semantic"])
                      ELSE before

\* the sorted list before similarities[:max_results]
VectorRanked(keys, query_embedding, similarity_threshold) ==
    SortDesc(Similarities(keys, query_embedding, similarity_threshold))

\* what vector_search returns when _get_filtered_chunks yields keys
VectorSearchResults(keys, query_embedding, max_results, similarity_threshold) ==
    Truncate(VectorRanked(keys, query_embedding, similarity_threshold), max_results)

VectorSearch ==
    \E query_embedding \in QueryEmbeddings, filters \in Filters,
       max_results \in 1..MaxResults, similarity_threshold \in Thresholds :
        /\ last.op = "none"
        /\ \E keys \in Orders(FilteredChunks(filters)) :
              last' = [op |-> "vector_search",
                       query_embedding |-> query_embedding,
                       filters |-> filters,
                       max_results |-> max_results,
                       similarity_threshold |-> similarity_threshold,
                       ranked |-> VectorRanked(keys, query_embedding,
                                               similarity_threshold),
                       results |-> VectorSearchResults(keys, query_embedding,
                                       max_results, similarity_threshold)]
        /\ UNCHANGED <<chunks, rulebook_idx, system_idx, ctype_idx>>
        /\ UNCHANGED campVars
        /\ UNCHANGED connVars
        /\ UNCHANGED embVars

\* ------------------------------------------------------------------------
\* keyword_search(query, filters)
\* ------------------------------------------------------------------------
TitleScore == 10       \* score += 1.0, in tenths
ContentScore == 5      \* score += 0.5, in tenths

\* a score that looks at the title only and tells upper from lower case
KeywordScoreExact(query, title, content) ==
    IF Contains(query, title) THEN TitleScore ELSE 0

\* the score of one chunk, in tenths
KeywordScore(query, title, content) ==
    (IF Contains(LowerStr(query), LowerStr(title)) THEN TitleScore ELSE 0)
    + (IF Contains(LowerStr(query), LowerStr(content)) THEN ContentScore ELSE 0)

\* the loop over chunk_keys: the results appended, in key order
RECURSIVE KeywordMatches(_, _)
KeywordMatches(keys, query) ==
    IF keys = <<>> THEN <<>>
    ELSE LET before == KeywordMatches(SubSeq(keys, 1, Len(keys) - 1), query)
             key == keys[Len(keys)]
         IN  IF "data" \notin DOMAIN chunks[key] THEN before
             ELSE LET score == KeywordScore(query, ChunkDict(key).title,
                                            ChunkDict(key).content)
                  IN  IF score > 0
                      THEN Append(before, [id |-> ChunkDict(key).id,
                                           score |-> <<score, 10>>,
                                           match_type |-> "keyword"])
                      ELSE before

\* what keyword_search returns when _get_filtered_chunks yields keys
KeywordSearchResults(keys, query) == SortDesc(KeywordMatches(keys, query))

KeywordSearch ==
    \E query \in Queries, filters \in Filters :
        /\ last.op = "none"
        /\ \E keys \in Orders(FilteredChunks(filters)) :
              last' = [op |-> "keyword_search", query |-> query,
                       filters |-> filters,
                       results |-> KeywordSearchResults(keys, query)]
        /\ UNCHANGED <<chunks, rulebook_idx, system_idx, ctype_idx>>
        /\ UNCHANGED campVars
        /\ UNCHANGED connVars
        /\ UNCHANGED embVars

\* ------------------------------------------------------------------------
\* The search front ends: _handle_search_rulebook (MCP) and search (CLI)
\* ------------------------------------------------------------------------
\* EmbeddingService.generate_embedding(text): blank text and a failing model
\* give the empty list
GenerateEmbedding(text, model_ok) ==
    IF IsBlank(text) \/ ~model_ok THEN <<>> ELSE Encode(text)

\* filters = {}; filters["rulebook"], filters["content_type"] when given
BuildFilters(rulebook, content_type) ==
    [d \in (IF rulebook # NoArg THEN {"rulebook"} ELSE {})
           \cup (IF content_type # NoArg THEN {"content_type"} ELSE {})
       |-> IF d = "rulebook" THEN rulebook ELSE content_type]

\* a fallback that fires when the vector search did return results
FallbackInverted(enable_keyword_fallback, vector_results) ==
    enable_keyword_fallback /\ vector_results # <<>>

\* a fallback that does not look at the vector results
FallbackAlways(enable_keyword_fallback, vector_results) ==
    enable_keyword_fallback

\* enable_keyword_fallback and not vector_results
FallbackFires(enable_keyword_fallback, vector_results) ==
    enable_keyword_fallback /\ vector_results = <<>>

\* The body both front ends share, from the query embedding on.  Each of the
\* two searches lists the keys in an order of its own; the order of a search
\* that returns nothing does not show, so one order stands for both.
SearchOutcome(op, query, filters, max_results, similarity_threshold, enable_keyword_fallback, model_ok, keys) ==
    LET query_embedding == GenerateEmbedding(query, model_ok)
        vector_results ==
            IF query_embedding # <<>>
            THEN VectorSearchResults(keys, query_embedding, max_results,
                                     similarity_threshold)
            ELSE <<>>
        fires == FallbackFires(enable_keyword_fallback, vector_results)
        keyword_results ==
            IF fires THEN Truncate(KeywordSearchResults(keys, query), max_results)
            ELSE <<>>
    IN  [ op |-> op,
          query |-> query,
          filters |-> filters,
          max_results |-> max_results,
          enable_keyword_fallback |-> enable_keyword_fallback,
          query_embedding |-> query_embedding,
          trace |-> <<"generate_embedding">>
                    \o (IF query_embedding # <<>> THEN <<"vector_search">> ELSE <<>>)
                    \o (IF fires THEN <<"keyword_search">> ELSE <<>>),
          vector_results |-> vector_results,
          keyword_results |-> keyword_results,
          results |-> vector_results \o keyword_results ]

\* _handle_search_rulebook(arguments); content_type "any" is no filter
McpSearch ==
    \E query \in Queries, rulebook \in Rulebooks \cup {NoArg},
       content_type \in ContentTypes \cup {"any"}, max_results \in 1..MaxResults,
       similarity_threshold \in Thresholds, enable_keyword_fallback \in BOOLEAN,
       model_ok \in BOOLEAN :
        LET filters == BuildFilters(rulebook,
                                    IF content_type = "any" THEN NoArg ELSE content_type)
        IN  /\ last.op = "none"
            /\ IF query = <<>>
               THEN last' = [op |-> "mcp_search", query |-> query,
                             error |-> "Query parameter is required",
                             trace |-> <<>>, results |-> <<>>]
               ELSE \E keys \in Orders(FilteredChunks(filters)) :
                       last' = SearchOutcome("mcp_search", query, filters, max_results,
                                             similarity_threshold,
                                             enable_keyword_fallback, model_ok, keys)
            /\ UNCHANGED <<chunks, rulebook_idx, system_idx, ctype_idx>>
            /\ UNCHANGED campVars
            /\ UNCHANGED connVars
            /\ UNCHANGED embVars

\* cli search QUERY [--rulebook] [--content-type] [--max-results]
CliSearch ==
    \E query \in Queries, rulebook \in Rulebooks \cup {NoArg},
       content_type \in ContentTypes \cup {NoArg}, max_results \in 1..MaxResults,
       similarity_threshold \in Thresholds, enable_keyword_fallback \in BOOLEAN,
       model_ok \in BOOLEAN :
        LET filters == BuildFilters(rulebook, content_type)
        IN  /\ last.op = "none"
            /\ \E keys \in Orders(FilteredChunks(filters)) :
                  last' = SearchOutcome("cli_search", query, filters, max_results,
                                        similarity_threshold,
                                        enable_keyword_fallback, model_ok, keys)
            /\ UNCHANGED <<chunks, rulebook_idx, system_idx, ctype_idx>>
            /\ UNCHANGED campVars
            /\ UNCHANGED connVars
            /\ UNCHANGED embVars

\* ------------------------------------------------------------------------
\* get_campaign_data(campaign_id, data_type=None)
\* ------------------------------------------------------------------------
\* a campaign id under which nothing was ever stored
UnknownCampaign == "c9"

\* a read that takes the campaign-wide index whatever data_type is given
GetCampaignKeysAll(cid, data_type) == Smembers(campaign_index, cid)

\* SMEMBERS campaign_type:{campaign_id}:{data_type} if data_type is given,
\* else SMEMBERS campaign_index:{campaign_id}
GetCampaignKeys(cid, data_type) ==
    IF data_type # NoArg
    THEN Smembers(campaign_type, <<cid, data_type>>)
    ELSE Smembers(campaign_index, cid)

\* the dict appended for one key: HGETALL with content and tags parsed
ParsedRecord(h) == [h EXCEPT !.content = JsonLoads(@), !.tags = JsonLoads(@)]

\* the loop over campaign_keys: a key without a hash is passed over
RECURSIVE GetResults(_)
GetResults(keys) ==
    IF keys = <<>> THEN <<>>
    ELSE LET before == GetResults(SubSeq(keys, 1, Len(keys) - 1))
             data == hashes[keys[Len(keys)]]
         IN  IF data = NoHash THEN before ELSE Append(before, ParsedRecord(data))

\* what get_campaign_data returns for the keys in the order the set yields
\* them; a hash without content or tags raises KeyError and the call returns []
GetCampaignDataResult(keys) ==
    IF \E i \in 1..Len(keys) :
          /\ hashes[keys[i]] # NoHash
          /\ ~({"content", "tags"} \subseteq DOMAIN hashes[keys[i]])
    THEN <<>>
    ELSE GetResults(keys)

\* the whole call of a client that runs alone: SMEMBERS, then HGETALL per key
GetCampaignData(p) ==
    \E cid \in Campaigns \cup {UnknownCampaign}, data_type \in DataTypes \cup {NoArg} :
        /\ MayStart(p, FALSE)
        /\ calls' = calls + 1
        /\ \E keys \in Orders(GetCampaignKeys(cid, data_type)) :
              ret' = [ret EXCEPT ![p] =
                         [op |-> "get", cid |-> cid, data_type |-> data_type,
                          val |-> GetCampaignDataResult(keys)]]
        /\ UNCHANGED <<hashes, campaign_index, campaign_type, now, uuids, pc, loc>>
        /\ UNCHANGED rbVars
        /\ UNCHANGED connVars
        /\ UNCHANGED embVars

\* ------------------------------------------------------------------------
\* PDFParser: text
\* ------------------------------------------------------------------------
MaxContentLen == 5     \* longest section content given to the splitter
MaxChunkSize == 3      \* largest max_chunk_size given to the splitter

NL == "\n"
\* the separator of paragraphs, '\n\n'
ParagraphSep == <<NL, NL>>
\* the characters of a section content
ContentChars == {"a", NL}
Contents == UNION {[1..n -> ContentChars] : n \in 0..MaxContentLen}

\* str.split(sep): cut at the occurrences of sep, found from left to right
RECURSIVE SplitStr(_, _)
SplitStr(s, sep) ==
    LET hits == {i \in 1..(Len(s) - Len(sep) + 1) : SubSeq(s, i, i + Len(sep) - 1) = sep}
    IN  IF hits = {} THEN <<s>>
        ELSE LET i == CHOOSE h \in hits : \A g \in hits : h <= g
             IN  <<SubSeq(s, 1, i - 1)>> \o SplitStr(SubSeq(s, i + Len(sep), Len(s)), sep)

\* sep.join(parts)
RECURSIVE JoinStr(_, _)
JoinStr(parts, sep) ==
    IF parts = <<>> THEN <<>>
    ELSE IF Len(parts) = 1 THEN parts[1]
    ELSE JoinStr(SubSeq(parts, 1, Len(parts) - 1), sep) \o sep \o parts[Len(parts)]

\* str.replace(old, new) on single characters
ReplaceChar(s, old, new) == [i \in 1..Len(s) |-> IF s[i] = old THEN new ELSE s[i]]

\* ------------------------------------------------------------------------
\* _split_section_into_chunks(section, max_chunk_size)
\* ------------------------------------------------------------------------
\* the body of "for paragraph in paragraphs"
SplitStep(st, paragraph, max_chunk_size) ==
    LET para_size == Len(paragraph)
    IN  IF st.current_size + para_size > max_chunk_size /\ st.current_chunk # <<>>
        THEN [chunks |-> Append(st.chunks, JoinStr(st.current_chunk, ParagraphSep)),
              current_chunk |-> <<paragraph>>,
              current_size |-> para_size]
        ELSE [chunks |-> st.chunks,
              current_chunk |-> Append(st.current_chunk, paragraph),
              current_size |-> st.current_size + para_size]

\* chunks, current_chunk and current_size after the loop over paragraphs
RECURSIVE SplitLoop(_, _)
SplitLoop(paragraphs, max_chunk_size) ==
    IF paragraphs = <<>>
    THEN [chunks |-> <<>>, current_chunk |-> <<>>, current_size |-> 0]
    ELSE SplitStep(SplitLoop(SubSeq(paragraphs, 1, Len(paragraphs) - 1), max_chunk_size),
                   paragraphs[Len(paragraphs)], max_chunk_size)

SplitSectionIntoChunks(content, max_chunk_size) ==
    IF Len(content) <= max_chunk_size THEN <<content>>
    ELSE LET st == SplitLoop(SplitStr(content, ParagraphSep), max_chunk_size)
         IN  IF st.current_chunk # <<>>
             THEN Append(st.chunks, JoinStr(st.current_chunk, ParagraphSep))
             ELSE st.chunks

\* one call of the splitter
SplitSection ==
    /\ last.op = "none"
    /\ \E content \in Contents, max_chunk_size \in 1..MaxChunkSize :
          last' = [op |-> "split_section", content |-> content,
                   max_chunk_size |-> max_chunk_size,
                   pieces |-> SplitSectionIntoChunks(content, max_chunk_size)]
    /\ UNCHANGED <<chunks, rulebook_idx, system_idx, ctype_idx>>
    /\ UNCHANGED campVars
    /\ UNCHANGED connVars
    /\ UNCHANGED embVars

\* ------------------------------------------------------------------------
\* identify_sections(extracted_data), outline driven
\* ------------------------------------------------------------------------
MaxToc == 3            \* entries of an outline

\* "page" of an outline entry whose page has no idnum: None
NoPage == -1
TocTitles == { <<"a", " ", "b">>, <<"a", "_", "b">>, <<"c">> }
TocPages == {1, 2, NoPage}
TocLevels == {0, 1}
TocEntries == [title : TocTitles, page : TocPages, level : TocLevels]

\* the lists _extract_toc builds: the first entry is at level 0, and an entry
\* is at most one level below the entry before it
Tocs ==
    {toc \in UNION {[1..n -> TocEntries] : n \in 1..MaxToc} :
        /\ toc[1].level = 0
        /\ \A i \in 1..(Len(toc) - 1) : toc[i + 1].level <= toc[i].level + 1}

\* page_data of extract_text
Page(page_number, text) == [page_number |-> page_number, text |-> text]
\* the page lists of three documents; total_pages is the number of pages
Documents ==
    { << Page(1, <<"a", "a", NL, NL, "b", "b">>), Page(2, <<"c">>), Page(3, <<>>) >>,
      << Page(1, <<"c">>) >>,
      << >> }

\* end_page of entry i when the subtraction is defined
EndPage(toc, i, total_pages) ==
    IF i + 1 <= Len(toc) /\ toc[i + 1].level <= toc[i].level
    THEN toc[i + 1].page - 1
    ELSE total_pages

\* next_entry.get("page", end_page) - 1 with a page that is None: TypeError
EndPageRaises(toc, i) ==
    /\ i + 1 <= Len(toc)
    /\ toc[i + 1].level <= toc[i].level
    /\ toc[i + 1].page = NoPage

\* start_page <= page_num with a start_page that is None: TypeError at the
\* first page of the loop
ExtractRaises(pages, start_page) == start_page = NoPage /\ pages # <<>>

\* _extract_section_content(pages, start_page, end_page, section_title)
ExtractSectionContent(pages, start_page, end_page) ==
    LET Taken(page) == /\ start_page <= page.page_number
                       /\ page.page_number <= end_page
                       /\ page.text # <<>>
        content_pages == SelectSeq(pages, Taken)
    IN  JoinStr([k \in 1..Len(content_pages) |-> content_pages[k].text], <<NL>>)

\* the titles of the earlier entries with a smaller level
ParentSections(toc, i) ==
    LET Above(entry) == entry.level < toc[i].level
        parents == SelectSeq(SubSeq(toc, 1, i - 1), Above)
    IN  [k \in 1..Len(parents) |-> parents[k].title]

\* section_content of entry i
EntryContent(toc, pages, i) ==
    IF pages = <<>> THEN <<>>
    ELSE ExtractSectionContent(pages, toc[i].page, EndPage(toc, i, Len(pages)))

\* sections after the first n iterations of the loop over toc
RECURSIVE SectionsUpTo(_, _, _)
SectionsUpTo(toc, pages, n) ==
    IF n = 0 THEN <<>>
    ELSE LET before == SectionsUpTo(toc, pages, n - 1)
             section_content == EntryContent(toc, pages, n)
         IN  IF section_content # <<>>
             THEN Append(before,
                         [ title |-> toc[n].title,
                           content |-> section_content,
                           page_start |-> toc[n].page,
                           page_end |-> EndPage(toc, n, Len(pages)),
                           level |-> toc[n].level,
                           parent_sections |-> ParentSections(toc, n) ])
             ELSE before

\* an iteration raises TypeError, which identify_sections does not catch
IdentifyRaises(toc, pages) ==
    \E i \in 1..Len(toc) : EndPageRaises(toc, i) \/ ExtractRaises(pages, toc[i].page)

IdentifySections ==
    /\ last.op = "none"
    /\ \E toc \in Tocs, pages \in Documents :
          last' = [op |-> "identify_sections", toc |-> toc, pages |-> pages,
                   raised |-> IdentifyRaises(toc, pages),
                   sections |-> IF IdentifyRaises(toc, pages) THEN <<>>
                                ELSE SectionsUpTo(toc, pages, Len(toc))]
    /\ UNCHANGED <<chunks, rulebook_idx, system_idx, ctype_idx>>
    /\ UNCHANGED campVars
    /\ UNCHANGED connVars
    /\ UNCHANGED embVars

\* ------------------------------------------------------------------------
\* create_chunks(sections, rulebook_name, system)
\* ------------------------------------------------------------------------
ChunkSizeDefault == 3  \* max_chunk_size of create_chunks, on the scale of the model's texts

\* the rulebook name of an ingestion
IngestRulebooks == { <<"X", " ", "Y">> }
AllContentTypes == {"rule", "spell", "monster", "item"}

\* str(i)
DigitChars == <<"0", "1", "2", "3", "4", "5", "6", "7", "8", "9">>
Str(n) == [k \in DOMAIN IntToStr(n) |-> DigitChars[IntToStr(n)[k] + 1]]

\* any(word in title_lower for word in words)
AnyWordIn(words, title_lower) == \E word \in words : Contains(word, title_lower)

\* _determine_content_type(title)
DetermineContentType(title) ==
    LET title_lower == LowerStr(title)
    IN  IF AnyWordIn({ <<"s", "p", "e", "l", "l">>, <<"m", "a", "g", "i", "c">>,
                       <<"c", "a", "n", "t", "r", "i", "p">> }, title_lower)
        THEN "spell"
        ELSE IF AnyWordIn({ <<"m", "o", "n", "s", "t", "e", "r">>,
                            <<"c", "r", "e", "a", "t", "u", "r", "e">>,
                            <<"b", "e", "s", "t", "i", "a", "r", "y">> }, title_lower)
        THEN "monster"
        ELSE IF AnyWordIn({ <<"i", "t", "e", "m">>,
                            <<"e", "q", "u", "i", "p", "m", "e", "n", "t">>,
                            <<"w", "e", "a", "p", "o", "n">>,
                            <<"a", "r", "m", "o", "r">> }, title_lower)
        THEN "item"
        ELSE "rule"

\* f"{rulebook_name}_{section.title}_{i}".replace(" ", "_")
ChunkId(rulebook_name, title, i) ==
    ReplaceChar(rulebook_name \o <<"_">> \o title \o <<"_">> \o Str(i), " ", "_")

\* the chunks of one section
SectionChunks(section, rulebook_name, system) ==
    LET section_chunks == SplitSectionIntoChunks(section.content, ChunkSizeDefault)
    IN  [ k \in 1..Len(section_chunks) |->
            [ id |-> ChunkId(rulebook_name, section.title, k - 1),
              rulebook |-> rulebook_name,
              system |-> system,
              content_type |-> DetermineContentType(section.title),
              title |-> section.title,
              content |-> section_chunks[k],
              page_number |-> section.page_start,
              section_path |-> Append(section.parent_sections, section.title),
              embedding |-> <<>>,
              metadata |-> [ section_level |-> section.level,
                             page_range |-> Str(section.page_start) \o <<"-">>
                                            \o Str(section.page_end),
                             chunk_index |-> k - 1 ],
              tables |-> PyNone ] ]

RECURSIVE CreateChunksResult(_, _, _)
CreateChunksResult(sections, rulebook_name, system) ==
    IF sections = <<>> THEN <<>>
    ELSE CreateChunksResult(SubSeq(sections, 1, Len(sections) - 1), rulebook_name, system)
         \o SectionChunks(sections[Len(sections)], rulebook_name, system)

\* the ids of a chunk list, in order
ChunkIdsOf(content) == [k \in DOMAIN content |-> content[k].id]

\* create_chunks on the sections identify_sections returned
CreateChunks ==
    \E rulebook_name \in IngestRulebooks, system \in Systems :
        /\ last.op = "identify_sections"
        /\ ~last.raised
        /\ last' = [op |-> "create_chunks", sections |-> last.sections,
                    rulebook_name |-> rulebook_name, system |-> system,
                    chunks |-> CreateChunksResult(last.sections, rulebook_name, system)]
        /\ UNCHANGED <<chunks, rulebook_idx, system_idx, ctype_idx>>
        /\ UNCHANGED campVars
        /\ UNCHANGED connVars
        /\ UNCHANGED embVars

\* ------------------------------------------------------------------------
\* Ingestion: embeddings, store_rulebook_content, and reading back
\* ------------------------------------------------------------------------
\* batch_embed(texts) assigned to the chunks: a blank text and a failing
\* model give the empty embedding
EmbedChunks(content, model_ok) ==
    [ k \in DOMAIN content |->
        [content[k] EXCEPT !.embedding = IF IsBlank(content[k].content) \/ ~model_ok
                                         THEN <<>>
                                         ELSE Encode(content[k].content)] ]

\* the keys a document of the model can be stored under
IngestKeys ==
    { ChunkKey(ChunkId(rulebook_name, title, i)) :
        rulebook_name \in IngestRulebooks, title \in TocTitles, i \in 0..MaxContentLen }

\* an empty store that can take the chunks of the documents
InitIngestStore ==
    /\ chunks = [k \in IngestKeys |-> NoHash]
    /\ rulebook_idx = [r \in IngestRulebooks |-> {}]
    /\ system_idx = [s \in Systems |-> {}]
    /\ ctype_idx = [t \in AllContentTypes |-> {}]
    /\ last = [op |-> "none"]

\* the rest of _handle_add_rulebook: embed the chunks and store them
StoreChunks ==
    \E model_ok \in BOOLEAN, ok \in BOOLEAN :
        LET content == EmbedChunks(last.chunks, model_ok)
            db == PipeExecute(Db, PipelineCommands(content), ok)
        IN  /\ last.op = "create_chunks"
            /\ chunks' = db.chunks
            /\ rulebook_idx' = db.rulebook
            /\ system_idx' = db.system
            /\ ctype_idx' = db.content_type
            /\ last' = [op |-> "store_rulebook_content", sections |-> last.sections,
                        rulebook_name |-> last.rulebook_name, system |-> last.system,
                        content |-> content,
                        result |-> IF ok THEN "success" ELSE "error"]
            /\ UNCHANGED campVars
            /\ UNCHANGED connVars
            /\ UNCHANGED embVars

\* the same document ingested again: create_chunks on the same sections, and
\* store_rulebook_content with the chunks of the first run
StoreAgain ==
    \E ok \in BOOLEAN :
        LET db == PipeExecute(Db, PipelineCommands(last.content), ok)
        IN  /\ last.op = "store_rulebook_content"
            /\ last.result = "success"
            /\ chunks' = db.chunks
            /\ rulebook_idx' = db.rulebook
            /\ system_idx' = db.system
            /\ ctype_idx' = db.content_type
            /\ last' = [op |-> "store_again", content |-> last.content,
                        chunks_again |-> CreateChunksResult(last.sections,
                                             last.rulebook_name, last.system),
                        result |-> IF ok THEN "success" ELSE "error"]
            /\ UNCHANGED campVars
            /\ UNCHANGED connVars
            /\ UNCHANGED embVars

\* _dict_to_content_chunk(chunk_dict)
DictToContentChunk(chunk_dict) ==
    [ id |-> chunk_dict.id, rulebook |-> chunk_dict.rulebook,
      system |-> chunk_dict.system, content_type |-> chunk_dict.content_type,
      title |-> chunk_dict.title, content |-> chunk_dict.content,
      page_number |-> chunk_dict.page_number,
      section_path |-> chunk_dict.section_path,
      embedding |-> chunk_dict.embedding, metadata |-> chunk_dict.metadata,
      tables |-> DictGet(chunk_dict, "tables", PyList(<<>>)) ]

\* keyword_search("") after the ingestion: every stored chunk matches, and
\* each result carries the chunk _dict_to_content_chunk builds
SearchStored ==
    \E keys \in Orders(FilteredChunks(EmptyDict)) :
        LET results == KeywordSearchResults(keys, <<>>)
        IN  /\ last.op = "store_rulebook_content"
            /\ last.result = "success"
            /\ last' = [op |-> "search_stored", stored |-> last.content,
                        results |-> results,
                        content_chunks |->
                            [k \in DOMAIN results |->
                                DictToContentChunk(ChunkDict(ChunkKey(results[k].id)))]]
            /\ UNCHANGED <<chunks, rulebook_idx, system_idx, ctype_idx>>
            /\ UNCHANGED campVars
            /\ UNCHANGED connVars
            /\ UNCHANGED embVars

\* ------------------------------------------------------------------------
\* _identify_sections_from_text(pages): sections from heading patterns
\* ------------------------------------------------------------------------
MaxTextPages == 2      \* pages of a document without outline
MaxPageLines == 2      \* lines of one page

UpperChars == {"A", "B", "C", "D", "E", "F", "G", "H", "I", "J", "K", "L", "M",
               "N", "O", "P", "Q", "R", "S", "T", "U", "V", "W", "X", "Y", "Z"}
DigitSet == {DigitChars[d] : d \in DOMAIN DigitChars}

\* str.strip(): without the whitespace at both ends
Strip(text) ==
    LET solid == {i \in 1..Len(text) : text[i] \notin Whitespace}
    IN  IF solid = {} THEN <<>>
        ELSE SubSeq(text, CHOOSE i \in solid : \A j \in solid : i <= j,
                          CHOOSE i \in solid : \A j \in solid : j <= i)

\* the number of leading characters of s that are in the set
RECURSIVE Leading(_, _)
Leading(s, set) ==
    IF s = <<>> \/ s[1] \notin set THEN 0 ELSE 1 + Leading(Tail(s), set)
Drop(s, n) == SubSeq(s, n + 1, Len(s))

\* ^(Chapter\s+\d+[\.\:]?\s*.*?)$ and the same with CHAPTER
MatchesChapter(word, line) ==
    /\ Len(line) >= Len(word)
    /\ SubSeq(line, 1, Len(word)) = word
    /\ LET rest == Drop(line, Len(word))
           spaces == Leading(rest, Whitespace)
       IN  spaces >= 1 /\ Leading(Drop(rest, spaces), DigitSet) >= 1

\* ^([A-Z][A-Z\s]{3,}?)$
MatchesAllCaps(line) ==
    /\ Len(line) >= 4
    /\ line[1] \in UpperChars
    /\ \A i \in 2..Len(line) : line[i] \in UpperChars \cup Whitespace

\* ^(\d+\.\s+[A-Z].*?)$
MatchesNumbered(line) ==
    LET digits == Leading(line, DigitSet)
        rest == Drop(line, digits)
    IN  /\ digits >= 1
        /\ rest # <<>> /\ rest[1] = "."
        /\ LET spaces == Leading(Tail(rest), Whitespace)
               after == Drop(Tail(rest), spaces)
           IN  spaces >= 1 /\ after # <<>> /\ after[1] \in UpperChars

\* a line that matches one of heading_patterns
IsHeading(line) ==
    \/ MatchesChapter(<<"C", "h", "a", "p", "t", "e", "r">>, line)
    \/ MatchesChapter(<<"C", "H", "A", "P", "T", "E", "R">>, line)
    \/ MatchesAllCaps(line)
    \/ MatchesNumbered(line)

\* the lines the pages of the model are written with
TextLines ==
    { <<"R", "U", "L", "E">>,                            \* all capitals
      <<"1", ".", " ", "A">>,                            \* numbered
      <<"C", "h", "a", "p", "t", "e", "r", " ", "1">>,  \* chapter
      <<"A", "B", "C">>,                                 \* capitals, too short for a heading
      <<" ", "a", "b">>,                                 \* content, indented
      <<" ">> }                                          \* blank
\* the line lists of a page of at most max_lines lines
PageLineLists(max_lines) == UNION {[1..n -> TextLines] : n \in 0..max_lines}
\* the pages of extract_text for the documents without outline of at most
\* max_pages pages
TextDocuments(max_pages, max_lines) ==
    UNION { { [k \in 1..n |-> Page(k, JoinStr(lists[k], <<NL>>))] :
                lists \in [1..n -> PageLineLists(max_lines)] }
            : n \in 1..max_pages }

\* the body of "for line in lines", on the locals sections, current_section
\* and current_content
TextLineStep(st, raw_line, page_number) ==
    LET line == Strip(raw_line)
    IN  IF line = <<>> THEN st
        ELSE IF IsHeading(line)
        THEN [ sections |-> IF ~st.current_section.is_none /\ st.current_content # <<>>
                            THEN Append(st.sections,
                                        [st.current_section.section EXCEPT
                                             !.content = JoinStr(st.current_content, <<NL>>)])
                            ELSE st.sections,
               current_section |-> [ is_none |-> FALSE,
                                     section |-> [ title |-> line, content |-> <<>>,
                                                   page_start |-> page_number,
                                                   page_end |-> page_number,
                                                   level |-> 1,
                                                   parent_sections |-> <<>> ] ],
               current_content |-> <<>> ]
        ELSE IF ~st.current_section.is_none
        THEN [st EXCEPT !.current_content = Append(@, line),
                        !.current_section.section.page_end = page_number]
        ELSE st

\* the locals after the first n lines of a page
RECURSIVE TextLinesLoop(_, _, _, _)
TextLinesLoop(st, lines, n, page_number) ==
    IF n = 0 THEN st
    ELSE TextLineStep(TextLinesLoop(st, lines, n - 1, page_number), lines[n], page_number)

\* the locals after the first n pages
RECURSIVE TextPagesLoop(_, _)
TextPagesLoop(pages, n) ==
    IF n = 0
    THEN [sections |-> <<>>, current_section |-> PyNone, current_content |-> <<>>]
    ELSE LET lines == SplitStr(pages[n].text, <<NL>>)
         IN  TextLinesLoop(TextPagesLoop(pages, n - 1), lines, Len(lines),
                           pages[n].page_number)

IdentifySectionsFromTextResult(pages) ==
    LET st == TextPagesLoop(pages, Len(pages))
    IN  IF ~st.current_section.is_none /\ st.current_content # <<>>
        THEN Append(st.sections,
                    [st.current_section.section EXCEPT
                         !.content = JoinStr(st.current_content, <<NL>>)])
        ELSE st.sections

\* identify_sections on a document whose outline is empty
IdentifySectionsFromText ==
    /\ last.op = "none"
    /\ \E pages \in TextDocuments(MaxTextPages, MaxPageLines) :
          last' = [op |-> "identify_sections_from_text", pages |-> pages,
                   sections |-> IdentifySectionsFromTextResult(pages)]
    /\ UNCHANGED <<chunks, rulebook_idx, system_idx, ctype_idx>>
    /\ UNCHANGED campVars
    /\ UNCHANGED connVars
    /\ UNCHANGED embVars

\* ------------------------------------------------------------------------
\* EmbeddingService: generate_embedding, batch_embed, cleanup_cache
\* ------------------------------------------------------------------------
MaxTexts == 3          \* texts of one batch_embed call
MaxBatchSize == 2      \* largest batch_size of a batch_embed call
MaxCleanupSize == 3    \* largest max_size given to cleanup_cache

\* the texts given to the service
EmbedTexts == {<<"f", "i">>, <<" ", "f", "i">>, <<"a", "B">>, <<"q">>, <<" ">>, <<>>}
TextLists == UNION {[1..n -> EmbedTexts] : n \in 0..MaxTexts}
\* the sets of texts model.encode raises on during one call
BadTexts == {{}, {<<"q">>}}

\* _get_text_hash: the md5 digest of the text, distinct for distinct texts
TextHash(text) == <<"md5">> \o text

\* text_hash in self.cache, self.cache[text_hash], self.cache[text_hash] = v
CacheHas(cache, key) == \E k \in DOMAIN cache : cache[k].key = key
CacheGet(cache, key) == cache[CHOOSE k \in DOMAIN cache : cache[k].key = key].vector
CachePut(cache, key, vector) ==
    IF CacheHas(cache, key)
    THEN [k \in DOMAIN cache |->
             IF cache[k].key = key THEN [key |-> key, vector |-> vector] ELSE cache[k]]
    ELSE Append(cache, [key |-> key, vector |-> vector])

\* "if not text or not text.strip()"
IsBlankText(text) == Strip(text) = <<>>

\* uncached_indices: the positions of the texts that are neither blank nor
\* in the cache under the hash of the text as given
UncachedIndices(texts, cache) ==
    LET Uncached(i) == ~IsBlankText(texts[i]) /\ ~CacheHas(cache, TextHash(texts[i]))
    IN  SelectSeq([i \in 1..Len(texts) |-> i], Uncached)
\* uncached_texts: those texts, stripped
UncachedTexts(texts, cache) ==
    LET indices == UncachedIndices(texts, cache)
    IN  [n \in 1..Len(indices) |-> Strip(texts[indices[n]])]

\* the model batch (counted from 1) that holds uncached text n
BatchOf(n, batch_size) == ((n - 1) \div batch_size) + 1
\* the uncached texts whose model batch raises, and the number of uncached
\* texts whose vectors were stored before the first such batch
FailingPlaces(uncached, batch_size, bad) ==
    {n \in 1..Len(uncached) :
        \E m \in 1..Len(uncached) :
            /\ BatchOf(m, batch_size) = BatchOf(n, batch_size)
            /\ uncached[m] \in bad}
StoredPlaces(uncached, batch_size, bad) ==
    LET failing == FailingPlaces(uncached, batch_size, bad)
    IN  IF failing = {} THEN Len(uncached)
        ELSE (CHOOSE n \in failing : \A m \in failing : n <= m) - 1

\* the cache after the vectors of the first n uncached texts were stored
RECURSIVE CacheAfter(_, _, _)
CacheAfter(cache, uncached, n) ==
    IF n = 0 THEN cache
    ELSE CachePut(CacheAfter(cache, uncached, n - 1),
                  TextHash(uncached[n]), Encode(uncached[n]))

\* batch_embed(texts, batch_size) on a service, the model raising on bad:
\* the embeddings returned, the positions handed to the model, the service after
BatchEmbed(service, texts, batch_size, bad) ==
    LET indices == UncachedIndices(texts, service.cache)
        uncached == UncachedTexts(texts, service.cache)
        stored == StoredPlaces(uncached, batch_size, bad)
        raised == stored < Len(uncached)
        Place(i) == CHOOSE n \in DOMAIN indices : indices[n] = i
        embeddings == [i \in 1..Len(texts) |->
                          IF IsBlankText(texts[i]) THEN <<>>
                          ELSE IF CacheHas(service.cache, TextHash(texts[i]))
                          THEN CacheGet(service.cache, TextHash(texts[i]))
                          ELSE IF Place(i) <= stored THEN Encode(Strip(texts[i]))
                          ELSE <<>>]
        cache == IF service.cache_embeddings
                 THEN CacheAfter(service.cache, uncached, stored)
                 ELSE service.cache
        encoded == {indices[n] : n \in {m \in DOMAIN indices :
                        \/ m <= stored
                        \/ BatchOf(m, batch_size) = BatchOf(stored + 1, batch_size)}}
    IN  [ embeddings |-> embeddings,
          encoded |-> encoded,
          cache |-> cache,
          file |-> IF uncached # <<>> /\ ~raised /\ service.cache_embeddings
                   THEN SaveCache(cache) ELSE service.file ]

\* generate_embedding(text), the model raising on bad
GenerateEmbeddingCached(service, text, bad) ==
    LET hit == CacheHas(service.cache, TextHash(text))
        raised == Strip(text) \in bad
    IN  IF IsBlankText(text)
        THEN [embeddings |-> << <<>> >>, encoded |-> {}, cache |-> service.cache,
              file |-> service.file]
        ELSE IF hit
        THEN [embeddings |-> <<CacheGet(service.cache, TextHash(text))>>, encoded |-> {},
              cache |-> service.cache, file |-> service.file]
        ELSE IF raised
        THEN [embeddings |-> << <<>> >>, encoded |-> {1}, cache |-> service.cache,
              file |-> service.file]
        ELSE [embeddings |-> <<Encode(Strip(text))>>, encoded |-> {1},
              cache |-> IF service.cache_embeddings
                        THEN CachePut(service.cache, TextHash(text), Encode(Strip(text)))
                        ELSE service.cache,
              file |-> service.file]

\* the service after a call with the given outcome
AfterCall(service, op, texts, bad, out) ==
    [service EXCEPT
        !.cache = out.cache,
        !.file = out.file,
        !.embedded = @ \cup {texts[i] : i \in {j \in DOMAIN texts : out.embeddings[j] # <<>>}},
        !.call = [op |-> op, texts |-> texts, bad |-> bad,
                  embeddings |-> out.embeddings, encoded |-> out.encoded,
                  before |-> service]]

EmbedIdle ==
    /\ embedding_service.call.op = "none"
    /\ UNCHANGED campVars
    /\ UNCHANGED rbVars
    /\ UNCHANGED connVars

ServiceGenerateEmbedding ==
    /\ EmbedIdle
    /\ \E text \in EmbedTexts, bad \in BadTexts :
          embedding_service' = AfterCall(embedding_service, "generate_embedding", <<text>>, bad,
                                         GenerateEmbeddingCached(embedding_service, text, bad))

ServiceBatchEmbed ==
    /\ EmbedIdle
    /\ \E texts \in TextLists, batch_size \in 1..MaxBatchSize, bad \in BadTexts :
          embedding_service' = AfterCall(embedding_service, "batch_embed", texts, bad,
                                         BatchEmbed(embedding_service, texts, batch_size, bad))

\* cleanup_cache(max_size): cache_items[-max_size//2:] are the last
\* ceil(max_size / 2) items, and all of them when that number is 0
CleanupCache(service, max_size) ==
    LET keep == (max_size + 1) \div 2
        n == Len(service.cache)
        kept == IF keep = 0 \/ keep >= n THEN service.cache
                ELSE SubSeq(service.cache, n - keep + 1, n)
    IN  IF n > max_size
        THEN [cache |-> kept, file |-> SaveCache(kept)]
        ELSE [cache |-> service.cache, file |-> service.file]

ServiceCleanupCache ==
    /\ EmbedIdle
    /\ \E max_size \in 0..MaxCleanupSize :
          LET out == CleanupCache(embedding_service, max_size)
          IN  embedding_service' =
                  [embedding_service EXCEPT
                      !.cache = out.cache,
                      !.file = out.file,
                      !.embedded = IF out.cache = embedding_service.cache THEN @ ELSE {},
                      !.call = [op |-> "cleanup_cache", max_size |-> max_size,
                                before |-> embedding_service.cache]]

\* the call returns to its caller
ServiceReturn ==
    /\ embedding_service.call.op # "none"
    /\ embedding_service' = [embedding_service EXCEPT !.call = [op |-> "none"]]
    /\ UNCHANGED campVars
    /\ UNCHANGED rbVars
    /\ UNCHANGED connVars

\* the process ends without saving and a new service is constructed over
\* the cache file
ServiceRestart ==
    /\ EmbedIdle
    /\ embedding_service' = NewService(embedding_service.cache_embeddings,
                                       embedding_service.file)

NextEmbed ==
    \/ ServiceGenerateEmbedding
    \/ ServiceBatchEmbed
    \/ ServiceCleanupCache
    \/ ServiceReturn
    \/ ServiceRestart

InitEmbed ==
    /\ InitCampaign /\ InitRulebook /\ InitConnected
    /\ \E cache_embeddings \in BOOLEAN :
          embedding_service = NewService(cache_embeddings, NoFile)

\* ------------------------------------------------------------------------
\* Searches over records that store_rulebook_content did not write
\* ------------------------------------------------------------------------
\* a data field that json.loads cannot parse
NotJson == {<<"not json">>}
JsonParses(data) == \A p \in data : Len(p) = 2
\* the data of a record without one of its fields
WithoutField(data, field) == {p \in data : p[1] # field}
\* the data of a record whose vector has another length than the query vectors
WrongLengthVector(data) ==
    JsonDumps([JsonLoads(data) EXCEPT !.embedding = <<1, 0>>])
\* the data fields another client of the store leaves in place of data
ForeignData(data) ==
    { NotJson, WithoutField(data, "metadata"), WithoutField(data, "embedding"),
      WrongLengthVector(data) }
\* the keys another client writes
ForeignKeys == {ChunkKey("B"), ChunkKey("C")}

\* HSET chunk:<id> data <text> by another client of the same Redis
ForeignWrite ==
    /\ last.op = "none"
    /\ \E key \in ForeignKeys \cap ScanChunks :
          /\ JsonParses(chunks[key].data)
          /\ {"metadata", "embedding"} \subseteq DOMAIN JsonLoads(chunks[key].data)
          /\ Len(JsonLoads(chunks[key].data).embedding) # 2
          /\ \E data \in ForeignData(chunks[key].data) :
                chunks' = [chunks EXCEPT ![key].data = data]
    /\ UNCHANGED <<rulebook_idx, system_idx, ctype_idx, last>>
    /\ UNCHANGED campVars
    /\ UNCHANGED connVars
    /\ UNCHANGED embVars

\* the fields _dict_to_content_chunk reads with chunk_dict[...]
RequiredFields ==
    {"id", "rulebook", "system", "content_type", "title", "content",
     "page_number", "section_path", "embedding", "metadata"}
\* _dict_to_content_chunk(chunk_dict) raises KeyError
DictToChunkRaises(chunk_dict) == ~(RequiredFields \subseteq DOMAIN chunk_dict)

\* json.loads raises in the loop over chunk_keys
LoadsRaises(keys) ==
    \E n \in DOMAIN keys :
        "data" \in DOMAIN chunks[keys[n]] /\ ~JsonParses(chunks[keys[n]].data)

\* the loop of vector_search over chunk_keys when json.loads does not raise:
\* the entries of similarities, each with its chunk_dict
RECURSIVE SimilaritiesStored(_, _, _)
SimilaritiesStored(keys, query_embedding, similarity_threshold) ==
    IF keys = <<>> THEN <<>>
    ELSE LET before == SimilaritiesStored(SubSeq(keys, 1, Len(keys) - 1),
                                          query_embedding, similarity_threshold)
             key == keys[Len(keys)]
         IN  IF "data" \notin DOMAIN chunks[key] THEN before
             ELSE LET chunk_dict == ChunkDict(key)
                      chunk_embedding == DictGet(chunk_dict, "embedding", <<>>)
                      similarity == CosineSimilarity(query_embedding, chunk_embedding)
                  IN  IF /\ chunk_embedding # <<>>
                         /\ MeetsThreshold(similarity, similarity_threshold)
                      THEN Append(before, [key |-> key, chunk_dict |-> chunk_dict,
                                           score |-> similarity])
                      ELSE before

\* the SearchResults built from a list of entries, [] when building one raises
BuildResults(entries, match_type) ==
    IF \E n \in DOMAIN entries : DictToChunkRaises(entries[n].chunk_dict) THEN <<>>
    ELSE [n \in DOMAIN entries |-> [id |-> entries[n].chunk_dict.id,
                                    score |-> entries[n].score,
                                    match_type |-> match_type]]

\* vector_search over the keys of _get_filtered_chunks, whatever the records hold
VectorSearchStoredResults(keys, query_embedding, max_results, similarity_threshold) ==
    IF LoadsRaises(keys) THEN <<>>
    ELSE BuildResults(
             Truncate(SortDesc(SimilaritiesStored(keys, query_embedding,
                                                  similarity_threshold)),
                      max_results),
             "semantic")

\* the loop of keyword_search over chunk_keys when json.loads does not raise;
\* raised tells that _dict_to_content_chunk raised on a matching record
RECURSIVE KeywordMatchesStored(_, _)
KeywordMatchesStored(keys, query) ==
    IF keys = <<>> THEN <<>>
    ELSE LET before == KeywordMatchesStored(SubSeq(keys, 1, Len(keys) - 1), query)
             key == keys[Len(keys)]
         IN  IF "data" \notin DOMAIN chunks[key] THEN before
             ELSE LET chunk_dict == ChunkDict(key)
                      score == KeywordScore(query, DictGet(chunk_dict, "title", <<>>),
                                            DictGet(chunk_dict, "content", <<>>))
                  IN  IF score > 0
                      THEN Append(before, [key |-> key, chunk_dict |-> chunk_dict,
                                           score |-> <<score, 10>>])
                      ELSE before

\* keyword_search over the keys of _get_filtered_chunks, whatever the records hold
KeywordSearchStoredResults(keys, query) ==
    IF LoadsRaises(keys) THEN <<>>
    ELSE SortDesc(BuildResults(KeywordMatchesStored(keys, query), "keyword"))

VectorSearchStored ==
    /\ last.op = "none"
    /\ \E query_embedding \in QueryEmbeddings, filters \in Filters,
          max_results \in 1..MaxResults, similarity_threshold \in Thresholds :
          \E keys \in Orders(FilteredChunks(filters)) :
              last' = [op |-> "vector_search",
                       query_embedding |-> query_embedding,
                       max_results |-> max_results,
                       similarity_threshold |-> similarity_threshold,
                       keys |-> keys,
                       results |-> VectorSearchStoredResults(keys, query_embedding,
                                       max_results, similarity_threshold)]
    /\ UNCHANGED <<chunks, rulebook_idx, system_idx, ctype_idx>>
    /\ UNCHANGED campVars
    /\ UNCHANGED connVars
    /\ UNCHANGED embVars

KeywordSearchStored ==
    /\ last.op = "none"
    /\ \E query \in Queries, filters \in Filters :
          \E keys \in Orders(FilteredChunks(filters)) :
              last' = [op |-> "keyword_search", query |-> query, keys |-> keys,
                       results |-> KeywordSearchStoredResults(keys, query)]
    /\ UNCHANGED <<chunks, rulebook_idx, system_idx, ctype_idx>>
    /\ UNCHANGED campVars
    /\ UNCHANGED connVars
    /\ UNCHANGED embVars

StoredAddRulebook == last.op = "none" /\ AddRulebook

NextStored ==
    \/ StoredAddRulebook
    \/ ForeignWrite
    \/ VectorSearchStored
    \/ KeywordSearchStored
    \/ TakeResult

\* ------------------------------------------------------------------------
\* One add_rulebook ingestion, stage by stage
\* ------------------------------------------------------------------------
MaxPipelineToc == 2      \* entries of the outline of an ingested document
BatchSizeDefault == 32   \* batch_size of batch_embed(texts)

\* the outlines of the ingested documents; <<>> is a document without outline
PipelineTocs == {<<>>} \cup {toc \in Tocs : Len(toc) <= MaxPipelineToc}
\* the texts model.encode raises on during the ingestion
PipelineBadTexts == {{}, {<<"b", "b">>}}
\* the cache files the service of the server is constructed over: none, and
\* the file an earlier ingestion has left
PipelineCacheFiles ==
    {NoFile, SaveCache(<<[key |-> TextHash(<<"a", "a">>), vector |-> Encode(<<"a", "a">>)]>>)}

\* the stages of the ingestion, in the order of the code
Stages == <<"extraction", "identification", "chunking", "embedding", "storage">>

\* identify_sections(extracted_data): by the outline, or by the text when
\* there is none
IdentifySectionsOf(toc, pages) ==
    IF toc = <<>> THEN IdentifySectionsFromTextResult(pages)
    ELSE SectionsUpTo(toc, pages, Len(toc))

\* an assignment that pairs the chunks with the embeddings back to front
AssignEmbeddingsReversed(content, embeddings) ==
    [ k \in DOMAIN content |->
        IF k <= Len(embeddings)
        THEN [content[k] EXCEPT !.embedding = embeddings[Len(embeddings) + 1 - k]]
        ELSE content[k] ]

\* for chunk, embedding in zip(chunks, embeddings): chunk.embedding = embedding
AssignEmbeddings(content, embeddings) ==
    [ k \in DOMAIN content |->
        IF k <= Len(embeddings)
        THEN [content[k] EXCEPT !.embedding = embeddings[k]]
        ELSE content[k] ]

\* the position of the ingestion after a stage: the stage that returned, or
\* "failed" when it raised; done lists the stages entered
AfterStage(run, stage, raised, fields) ==
    [ op |-> "add_rulebook",
      stage |-> IF raised THEN "failed" ELSE stage,
      done |-> Append(run.done, stage),
      data |-> fields ]

PipelineUnchanged ==
    /\ UNCHANGED campVars
    /\ UNCHANGED connVars

\* extracted_data = pdf_parser.extract_text(pdf_path)
PipelineExtract ==
    /\ last.op = "none"
    /\ \E toc \in PipelineTocs, pages \in Documents, raised \in BOOLEAN :
          last' = AfterStage([done |-> <<>>], "extraction", raised,
                             [toc |-> toc, pages |-> pages])
    /\ UNCHANGED <<chunks, rulebook_idx, system_idx, ctype_idx>>
    /\ UNCHANGED embVars
    /\ PipelineUnchanged

\* sections = pdf_parser.identify_sections(extracted_data)
PipelineIdentify ==
    /\ last.op = "add_rulebook"
    /\ last.stage = "extraction"
    /\ LET toc == last.data.toc
           pages == last.data.pages
           raised == IdentifyRaises(toc, pages)
       IN  last' = AfterStage(last, "identification", raised,
                              [sections |-> IF raised THEN <<>>
                                            ELSE IdentifySectionsOf(toc, pages)])
    /\ UNCHANGED <<chunks, rulebook_idx, system_idx, ctype_idx>>
    /\ UNCHANGED embVars
    /\ PipelineUnchanged

\* chunks = pdf_parser.create_chunks(sections, rulebook_name, system)
PipelineChunk ==
    /\ last.op = "add_rulebook"
    /\ last.stage = "identification"
    /\ \E rulebook_name \in IngestRulebooks, system \in Systems :
          last' = AfterStage(last, "chunking", FALSE,
                             [chunks |-> CreateChunksResult(last.data.sections,
                                                            rulebook_name, system)])
    /\ UNCHANGED <<chunks, rulebook_idx, system_idx, ctype_idx>>
    /\ UNCHANGED embVars
    /\ PipelineUnchanged

\* embeddings = embedding_service.batch_embed(texts), assigned to the chunks
PipelineEmbed ==
    /\ last.op = "add_rulebook"
    /\ last.stage = "chunking"
    /\ \E bad \in PipelineBadTexts :
          LET texts == [k \in DOMAIN last.data.chunks |-> last.data.chunks[k].content]
              out == BatchEmbed(embedding_service, texts, BatchSizeDefault, bad)
          IN  /\ embedding_service' = AfterCall(embedding_service, "batch_embed",
                                                texts, bad, out)
              /\ last' = AfterStage(last, "embedding", FALSE,
                                    [chunks |-> last.data.chunks,
                                     embeddings |-> out.embeddings,
                                     content |-> AssignEmbeddings(last.data.chunks,
                                                                  out.embeddings)])
    /\ UNCHANGED <<chunks, rulebook_idx, system_idx, ctype_idx>>
    /\ PipelineUnchanged

\* redis_manager.store_rulebook_content(chunks)
PipelineStore ==
    /\ last.op = "add_rulebook"
    /\ last.stage = "embedding"
    /\ \E ok \in BOOLEAN :
          LET db == PipeExecute(Db, PipelineCommands(last.data.content), ok)
          IN  /\ chunks' = db.chunks
              /\ rulebook_idx' = db.rulebook
              /\ system_idx' = db.system
              /\ ctype_idx' = db.content_type
              /\ last' = AfterStage(last, "storage", ~ok, last.data)
    /\ UNCHANGED embVars
    /\ PipelineUnchanged

NextPipeline ==
    \/ PipelineExtract
    \/ PipelineIdentify
    \/ PipelineChunk
    \/ PipelineEmbed
    \/ PipelineStore

\* an empty store and the service of the server
InitPipeline ==
    /\ InitCampaign /\ InitIngestStore /\ InitConnected
    /\ \E file \in PipelineCacheFiles : embedding_service = NewService(TRUE, file)

\* ------------------------------------------------------------------------
\* Specifications
\* ------------------------------------------------------------------------
\* the steps that continue a call in progress
CampaignStep(p) ==
    \/ StoreSaddIndex(p)
    \/ StoreSaddType(p)
    \/ UpdFind(p)
    \/ UpdHgetall(p)
    \/ UpdHset(p)
    \/ DelFind(p)
    \/ DelSremIndex(p)
    \/ DelHgetType(p)
    \/ DelSremType(p)
    \/ DelDelete(p)
    \/ ClnHget(p)
    \/ ClnDelete(p)

CampaignCall(p, concurrent) ==
    \/ StoreHset(p, concurrent)
    \/ UpdSmembers(p, concurrent)
    \/ DelSmembers(p, concurrent)
    \/ ClnScan(p, concurrent)

\* clients call concurrently: any interleaving of their Redis commands
NextCampaign ==
    \/ Tick
    \/ \E p \in Procs : CampaignCall(p, TRUE)
    \/ \E p \in Procs : CampaignStep(p)

SpecCampaign == Init /\ [][NextCampaign]_vars

\* one client: each call runs to its return before the next one starts
NextCampaignSeq ==
    \/ Tick
    \/ CampaignCall(1, FALSE)
    \/ CampaignStep(1)

SpecCampaignSeq == Init /\ [][NextCampaignSeq]_vars

\* ingestion and search on the chunk store
NextRulebook ==
    \/ AddRulebook
    \/ TakeResult
    \/ GetFilteredChunks
    \/ VectorSearch
    \/ KeywordSearch
    \/ McpSearch
    \/ CliSearch

SpecRulebook == Init /\ [][NextRulebook]_vars

\* the constructor of RedisDataManager: ping and time.sleep return or raise
\* (socket_timeout=10, socket_connect_timeout=10), so the loop keeps stepping
NextConnect ==
    \/ ConnPing
    \/ ConnSleep
    \/ ConnExhausted

\* a manager under construction: the store is as it was, the loop starts
InitConnecting == InitCampaign /\ InitRulebook /\ InitConnect /\ InitEmbedding

SpecConnect == InitConnecting /\ [][NextConnect]_vars /\ WF_vars(NextConnect)

\* one client that stores, updates, deletes and reads; cleanup_old_data is
\* not called
CrudCall(p) ==
    \/ StoreHset(p, FALSE)
    \/ UpdSmembers(p, FALSE)
    \/ DelSmembers(p, FALSE)
    \/ GetCampaignData(p)

CrudStep(p) ==
    \/ StoreSaddIndex(p)
    \/ StoreSaddType(p)
    \/ UpdFind(p)
    \/ UpdHgetall(p)
    \/ UpdHset(p)
    \/ DelFind(p)
    \/ DelSremIndex(p)
    \/ DelHgetType(p)
    \/ DelSremType(p)
    \/ DelDelete(p)

\* time passes between two calls: the clock is read by store and update
\* only, so time that passes before the first call, within a call of the one
\* client or after the last call shows in no record
CrudTick == calls > 0 /\ calls < MaxCalls /\ AllIdle /\ Tick

NextCampaignCrud ==
    \/ CrudTick
    \/ CrudCall(1)
    \/ CrudStep(1)

SpecCampaignCrud == Init /\ [][NextCampaignCrud]_vars

\* One client that works on the campaign records or on the chunk store.  The
\* two key families (campaign:*, campaign_index:*, campaign_type:* and chunk:*,
\* rulebook:*, system:*, content_type:*) are disjoint and no operation of one
\* reads or writes the other, so a behaviour stays within one of them.
CampaignUntouched == calls = 0 /\ now = 0
RulebookUntouched == last.op = "none" /\ ScanChunks = {}

ClientTick == RulebookUntouched /\ CrudTick
ClientStore == RulebookUntouched /\ StoreHset(1, FALSE)
ClientUpdate == RulebookUntouched /\ UpdSmembers(1, FALSE)
ClientDelete == RulebookUntouched /\ DelSmembers(1, FALSE)
ClientGet == RulebookUntouched /\ GetCampaignData(1)
ClientAddRulebook == CampaignUntouched /\ last.op = "none" /\ AddRulebook
ClientTakeResult == CampaignUntouched /\ TakeResult
ClientVectorSearch == CampaignUntouched /\ last.op = "none" /\ VectorSearch
ClientKeywordSearch == CampaignUntouched /\ last.op = "none" /\ KeywordSearch

NextClient ==
    \/ ClientTick
    \/ ClientStore
    \/ ClientUpdate
    \/ ClientDelete
    \/ ClientGet
    \/ CrudStep(1)
    \/ ClientAddRulebook
    \/ ClientTakeResult
    \/ ClientVectorSearch
    \/ ClientKeywordSearch

SpecClient == Init /\ [][NextClient]_vars

\* One document taken through the ingestion pipeline into an empty store.
\* The result of a parser call is taken before the next call.
IngestTakeResult == ScanChunks = {} /\ last.op \notin {"create_chunks"} /\ TakeResult

NextIngest ==
    \/ SplitSection
    \/ IdentifySections
    \/ CreateChunks
    \/ StoreChunks
    \/ StoreAgain
    \/ SearchStored
    \/ IngestTakeResult

InitIngest == InitCampaign /\ InitIngestStore /\ InitConnected /\ InitEmbedding

SpecIngest == InitIngest /\ [][NextIngest]_vars

\* identify_sections on documents without outline
NextTextSections ==
    \/ IdentifySectionsFromText
    \/ IngestTakeResult

SpecTextSections == InitIngest /\ [][NextTextSections]_vars

\* the embedding service under any sequence of its calls
SpecEmbed == InitEmbed /\ [][NextEmbed]_vars

\* the searches over a store that another client writes to as well
SpecStored == Init /\ [][NextStored]_vars

\* one ingestion by _handle_add_rulebook / cli add_rulebook
SpecPipeline == InitPipeline /\ [][NextPipeline]_vars


\* ------------------------------------------------------------------------
\* Properties
\* ------------------------------------------------------------------------
Range(f) == {f[i] : i \in DOMAIN f}
Version(h) == StrToInt(h.version)

\* C1: in every state a concurrent reader can observe, a campaign record key
\* is in the campaign-wide index set exactly when it is in its type index set
\* (store and delete never show a state in which only one index lists it).
C1_IndexesAgree ==
    \A k \in CampaignKeys :
        (k \in campaign_index[k[1]]) <=> (k \in campaign_type[<<k[1], k[2]>>])

\* C2: after any sequence of store, update, delete and cleanup calls, every
\* key listed in a campaign index set names a record hash that still exists.
C2_NoDanglingIndexEntry ==
    AllIdle =>
        /\ \A c \in Campaigns : \A k \in campaign_index[c] : HExists(k)
        /\ \A ct \in Campaigns \X DataTypes : \A k \in campaign_type[ct] : HExists(k)

\* C10: a record is created with version 1; a successful update raises the
\* stored version by exactly 1; while the record exists no other step changes
\* the version and it never decreases.
\* (A step that writes no hash and is not the HSET of an update meets the
\* conditions below at every key; it is set apart to be decided at once.)
C10_VersionStep ==
    \/ (hashes' = hashes /\ \A p \in Procs : pc[p] # "upd_hset")
    \/ \A k \in CampaignKeys :
        LET updated == \E p \in Procs :
                /\ pc[p] = "upd_hset"
                /\ loc[p].key = k
                /\ ret'[p] = [op |-> "update", val |-> TRUE]
                /\ pc'[p] = "idle"
        IN  /\ (hashes[k] = NoHash /\ hashes'[k] # NoHash)
                => Version(hashes'[k]) = 1
            /\ (hashes[k] # NoHash /\ hashes'[k] # NoHash)
                => IF updated
                   THEN Version(hashes'[k]) = Version(hashes[k]) + 1
                   ELSE Version(hashes'[k]) = Version(hashes[k])
            /\ (updated => hashes'[k] # NoHash)

C10_VersionMonotone == [][C10_VersionStep]_vars

\* a record that two updates have taken from version 1 to version 3
C10_Witness ==
    \E k \in CampaignKeys :
        /\ hashes[k] # NoHash
        /\ Version(hashes[k]) = 3
        /\ ret[1] = [op |-> "update", val |-> TRUE]


\* ---- store_rulebook_content ----
\* the last chunk of the list that is stored under the key
LastWithKey(content, key) ==
    content[CHOOSE i \in 1..Len(content) :
                /\ ChunkKey(content[i].id) = key
                /\ \A j \in (i + 1)..Len(content) : ChunkKey(content[j].id) # key]

\* every chunk of the list has its hash and its three index memberships in db
AllPresent(content, db) ==
    \A i \in 1..Len(content) :
        LET key == ChunkKey(content[i].id)
        IN  /\ db.chunks[key] # NoHash
            /\ db.chunks[key].data = JsonDumps(ChunkData(LastWithKey(content, key)))
            /\ key \in db.rulebook[content[i].rulebook]
            /\ key \in db.system[content[i].system]
            /\ key \in db.content_type[content[i].content_type]

\* C3: store_rulebook_content is all-or-nothing: the step of a call that
\* succeeds leaves every chunk hash and every index membership of its list in
\* place, the step of a call that fails leaves the chunk key space as it was
\* and add_rulebook reports the error; no step changes the key space otherwise,
\* so no reader sees part of a list.
C3_Step ==
    /\ (last.op = "none" /\ last'.op = "add_rulebook") =>
          IF last'.result = "success"
          THEN AllPresent(last'.content, Db')
          ELSE last'.result = "error" /\ Db' = Db
    /\ Db' # Db =>
          /\ last.op = "none"
          /\ last'.op = "add_rulebook"
          /\ last'.result = "success"

C3_BatchAllOrNothing == [][C3_Step]_vars

\* a list of two chunks failed to store: neither chunk is in the key space,
\* which still holds a chunk stored before
C3_Witness ==
    /\ last.op = "add_rulebook"
    /\ last.result = "error"
    /\ Len(last.content) = 2
    /\ last.content[1].id # last.content[2].id
    /\ \A i \in 1..2 : chunks[ChunkKey(last.content[i].id)] = NoHash
    /\ ScanChunks # {}

\* ---- _get_filtered_chunks ----
IndexSet(dimension, value) ==
    CASE dimension = "rulebook" -> Smembers(rulebook_idx, value)
      [] dimension = "system" -> Smembers(system_idx, value)
      [] dimension = "content_type" -> Smembers(ctype_idx, value)

\* C4: _get_filtered_chunks returns exactly the keys that are in the index set
\* of every given dimension, each once, and all stored chunk keys when no
\* filter is given.
C4_FilterIsIntersection ==
    last.op = "get_filtered_chunks" =>
        /\ Cardinality(Range(last.keys)) = Len(last.keys)
        /\ Range(last.keys) =
              IF DOMAIN last.filters = {}
              THEN {k \in ChunkKeys : chunks[k] # NoHash}
              ELSE {k \in ChunkKeys :
                       \A d \in DOMAIN last.filters : k \in IndexSet(d, last.filters[d])}

\* chunks A (X, S1), B (X, S2) and C (Y, S1) are stored and the filters
\* {rulebook: X, system: S1} yield exactly A
C4_Witness ==
    /\ last.op = "get_filtered_chunks"
    /\ last.filters = [rulebook |-> "X", system |-> "S1"]
    /\ last.keys = <<ChunkKey("A")>>
    /\ ChunkKey("B") \in rulebook_idx["X"] \cap system_idx["S2"]
    /\ ChunkKey("C") \in rulebook_idx["Y"] \cap system_idx["S1"]

\* ---- the search front ends ----
FrontEnd == last.op \in {"mcp_search", "cli_search"}
Called(name) == name \in Range(last.trace)

\* C5: the list a front end returns holds results of one match type, and
\* keyword_search is called only when the fallback is enabled and the vector
\* search produced no result.
C5_SingleMatchType ==
    FrontEnd =>
        /\ \A i, j \in 1..Len(last.results) :
              last.results[i].match_type = last.results[j].match_type
        /\ Called("keyword_search") =>
              /\ last.enable_keyword_fallback
              /\ last.vector_results = <<>>
              /\ last.results = last.keyword_results

\* the vector search returned nothing and the fallback returned keyword results
C5_Witness ==
    /\ FrontEnd
    /\ last.trace = <<"generate_embedding", "vector_search", "keyword_search">>
    /\ last.results # <<>>
    /\ \A i \in 1..Len(last.results) : last.results[i].match_type = "keyword"

\* C6 as stated: whenever the keyword fallback fires, vector_search was called
\* earlier in the same query and returned the empty list.
C6_FallbackOnlyAfterVectorSearch ==
    (FrontEnd /\ Called("keyword_search")) =>
        \E i, j \in 1..Len(last.trace) :
            /\ i < j
            /\ last.trace[i] = "vector_search"
            /\ last.trace[j] = "keyword_search"
            /\ last.vector_results = <<>>

\* C6 as amended: whenever the keyword fallback fires, either vector_search was
\* called earlier in the same query and returned the empty list, or
\* generate_embedding returned no vector and vector_search was skipped; there
\* is no vector result in either case.
C6_FallbackAfterEmptyOrSkippedVectorSearch ==
    (FrontEnd /\ Called("keyword_search")) =>
        /\ last.vector_results = <<>>
        /\ \/ last.trace = <<"generate_embedding", "vector_search", "keyword_search">>
           \/ /\ last.query_embedding = <<>>
              /\ last.trace = <<"generate_embedding", "keyword_search">>

\* the embedding model failed on a query, and the fallback answered it
C6_Witness ==
    /\ FrontEnd
    /\ ~IsBlank(last.query)
    /\ last.query_embedding = <<>>
    /\ last.trace = <<"generate_embedding", "keyword_search">>
    /\ last.keyword_results # <<>>

\* ---- ranking ----
ChunkIdOrder == <<"A", "B", "C", "D">>
IdRank(id) == CHOOSE i \in 1..Len(ChunkIdOrder) : ChunkIdOrder[i] = id
SameScore(a, b) == Geq(a, b) /\ Geq(b, a)

\* score descending, equal scores by chunk id ascending
RankedById(results) ==
    \A i, j \in 1..Len(results) :
        i < j => \/ Gt(results[i].score, results[j].score)
                 \/ /\ SameScore(results[i].score, results[j].score)
                    /\ IdRank(results[i].id) < IdRank(results[j].id)

\* C7: the list vector_search returns, and the truncated keyword list a front
\* end returns, is in score order with equal scores in ascending chunk id
\* order, and has at most max_results entries.
C7_RankedByScoreThenId ==
    /\ last.op = "vector_search" =>
          /\ RankedById(last.results)
          /\ Len(last.results) <= last.max_results
    /\ (FrontEnd /\ Called("keyword_search")) =>
          /\ RankedById(last.keyword_results)
          /\ Len(last.keyword_results) <= last.max_results

\* C8: before truncation vector_search keeps exactly the candidates (passing
\* the filters, with a stored vector) whose similarity is at least the
\* threshold, a similarity equal to the threshold included, and it returns the
\* first max_results of them.
C8_ThresholdInclusive ==
    last.op = "vector_search" =>
        LET candidates == {k \in FilteredChunks(last.filters) :
                              ChunkDict(k).embedding # <<>>}
            sim(k) == CosineSimilarity(last.query_embedding, ChunkDict(k).embedding)
            t == last.similarity_threshold
        IN  /\ \A k \in candidates :
                  (sim(k)[1] * t[2] >= t[1] * sim(k)[2])
                  <=> (\E i \in 1..Len(last.ranked) : last.ranked[i].id = ChunkDict(k).id)
            /\ \A i \in 1..Len(last.ranked) :
                  /\ last.ranked[i].score[1] * t[2] >= t[1] * last.ranked[i].score[2]
                  /\ \E k \in candidates : ChunkDict(k).id = last.ranked[i].id
            /\ last.results = Truncate(last.ranked, last.max_results)

\* a result whose similarity is exactly the threshold
C8_Witness ==
    /\ last.op = "vector_search"
    /\ \E i \in 1..Len(last.results) :
          last.results[i].score[1] * last.similarity_threshold[2]
              = last.similarity_threshold[1] * last.results[i].score[2]

\* C9: keyword_search returns one result tagged keyword for every filtered
\* chunk whose lower-cased title or content contains the lower-cased query,
\* with score 1.0 (title only), 0.5 (content only) or 1.5 (both), none for a
\* chunk matching neither, and no other result.
C9_KeywordScores ==
    last.op = "keyword_search" =>
        LET q == LowerStr(last.query)
            inTitle(k) == Contains(q, LowerStr(ChunkDict(k).title))
            inContent(k) == Contains(q, LowerStr(ChunkDict(k).content))
            hits(k) == {i \in 1..Len(last.results) : last.results[i].id = ChunkDict(k).id}
        IN  /\ \A k \in FilteredChunks(last.filters) :
                  IF inTitle(k) \/ inContent(k)
                  THEN /\ Cardinality(hits(k)) = 1
                       /\ \A i \in hits(k) :
                             /\ last.results[i].match_type = "keyword"
                             /\ last.results[i].score =
                                   IF inTitle(k) /\ inContent(k) THEN <<15, 10>>
                                   ELSE IF inTitle(k) THEN <<10, 10>> ELSE <<5, 10>>
                  ELSE hits(k) = {}
            /\ \A i \in 1..Len(last.results) :
                  /\ last.results[i].score \in {<<5, 10>>, <<10, 10>>, <<15, 10>>}
                  /\ \E k \in FilteredChunks(last.filters) :
                        ChunkDict(k).id = last.results[i].id

\* one search that scores a title match, a content match and a match of both,
\* among four candidates
C9_Witness ==
    /\ last.op = "keyword_search"
    /\ Cardinality(FilteredChunks(last.filters)) = 4
    /\ {last.results[i].score : i \in 1..Len(last.results)}
          = {<<5, 10>>, <<10, 10>>, <<15, 10>>}

\* what holds of the retry loop in every state
C14_Bounded ==
    LET n == Len(conn.pings)
    IN  /\ n <= conn.max_retries
        /\ \A i \in 1..(n - 1) : conn.pings[i] = "ConnectionError"
        /\ Len(conn.slept) <= n
        /\ \A i \in 1..Len(conn.slept) :
              conn.slept[i] = IF i = 1 THEN 1 ELSE 2 * conn.slept[i - 1]
        /\ conn.status = "sleep" => n < conn.max_retries
        /\ conn.status = "connected" =>
              /\ conn.pings[n] = "ok"
              /\ Len(conn.slept) = n - 1
        /\ conn.status = "raised" =>
              /\ conn.error # "none"
              /\ \A i \in 1..n : conn.pings[i] # "ok"
              /\ Len(conn.slept) = IF n = 0 THEN 0 ELSE n - 1
              /\ conn.error = "ConnectionError" => n = conn.max_retries
        /\ (\E i \in 1..n : conn.pings[i] = "ok") => conn.status = "connected"

C14_Done == conn.status \in {"connected", "raised"}

\* C14: _create_connection always terminates: at most max_retries attempts,
\* the client is returned at the first attempt whose ping succeeds, the waits
\* are 1, 2, 4, ... seconds and lie only between a failed attempt and the next
\* one, and a connection error is raised after the last allowed attempt fails
\* (at once when max_retries is 0).
C14_ConnectionTerminates == []C14_Bounded /\ <>C14_Done

\* three attempts failed, with waits of 1 and 2 seconds, and the error was raised
C14_Witness ==
    /\ conn.status = "raised"
    /\ conn.max_retries = 3
    /\ conn.pings = <<"ConnectionError", "ConnectionError", "ConnectionError">>
    /\ conn.slept = <<1, 2>>

\* the step is one of a call of operation op by the one client
StepOf(op) ==
    \/ loc[1].op = op
    \/ /\ pc[1] = "idle"
       /\ calls' = calls + 1
       /\ \/ loc'[1].op = op
          \/ pc'[1] = "idle" /\ ret'[1].op = op
\* the step on which a call of op returns val
Returns(op, val) ==
    /\ StepOf(op)
    /\ pc'[1] = "idle"
    /\ ret'[1].op = op
    /\ ret'[1].val = val

C11_Step ==
    /\ StepOf("update") =>
          /\ UNCHANGED <<campaign_index, campaign_type>>
          /\ \A k \in CampaignKeys :
                hashes'[k] # hashes[k] => Returns("update", TRUE) /\ k = loc[1].key
    /\ (Returns("update", TRUE) /\ pc[1] # "idle") =>
          LET k == loc[1].key
              old == JsonLoads(hashes[k].content)
              new == JsonLoads(hashes'[k].content)
              given == IF "content" \in DOMAIN loc[1].updates
                       THEN loc[1].updates.content ELSE EmptyDict
          IN  /\ DOMAIN new = DOMAIN old \cup DOMAIN given
              /\ \A f \in DOMAIN new :
                    new[f] = IF f \in DOMAIN given THEN given[f] ELSE old[f]
              /\ \A f \in {"id", "campaign_id", "data_type", "created_at"} :
                    /\ f \in DOMAIN hashes'[k]
                    /\ hashes'[k][f] = hashes[k][f]

\* C11: update_campaign_data on an existing record replaces content by the
\* old content map overridden key by key with the update's content map (keys
\* absent from the update keep their value, none is removed) and leaves id,
\* campaign_id, data_type, created_at and both index sets unchanged.
C11_UpdateMergesContent == [][C11_Step]_vars

\* a record stored at day 0 and updated a day later holds the old key hp and
\* the new key lvl
C11_Witness ==
    /\ ret[1] = [op |-> "update", val |-> TRUE]
    /\ \E k \in CampaignKeys :
          /\ HExists(k)
          /\ {"hp", "lvl"} \subseteq DOMAIN JsonLoads(hashes[k].content)
          /\ hashes[k].created_at # hashes[k].updated_at

\* the step is a whole get_campaign_data call
GetStep == pc[1] = "idle" /\ calls' = calls + 1 /\ pc'[1] = "idle" /\ ret'[1].op = "get"

\* the keys of the records created under campaign cid (with data type
\* data_type, if one is given) whose hash exists
LiveKeys(cid, data_type) ==
    {k \in CampaignKeys : /\ HExists(k)
                          /\ k[1] = cid
                          /\ data_type # NoArg => k[2] = data_type}

C12_Step ==
    \* a record comes into existence by store_campaign_data only, under the
    \* key of the call's campaign, data type and new id, and is there on return
    /\ hashes' # hashes =>
          \A k \in CampaignKeys :
              (~HExists(k) /\ HExists(k)') =>
                  /\ StepOf("store")
                  /\ k = <<loc'[1].cid, loc'[1].dtype, loc'[1].did>>
                  /\ hashes'[k].id = k[3]
    /\ (pc[1] = "store_sadd_type" /\ pc'[1] = "idle") =>
          /\ hashes'[loc[1].key] # NoHash
          /\ ret'[1] = [op |-> "store", val |-> loc[1].key[3]]
    \* it goes out of existence only by a delete_campaign_data(c, id) that
    \* returns True, and then it does
    /\ hashes' # hashes =>
          \A k \in CampaignKeys :
              (HExists(k) /\ ~HExists(k)') =>
                  /\ Returns("delete", TRUE)
                  /\ k = loc[1].key
    /\ Returns("delete", TRUE) =>
          /\ hashes'[loc[1].key] = NoHash
          /\ loc[1].key[1] = loc[1].cid
          /\ loc[1].key[3] = loc[1].did
    \* get_campaign_data returns exactly the records in existence
    /\ GetStep =>
          LET val == ret'[1].val
              live == LiveKeys(ret'[1].cid, ret'[1].data_type)
          IN  /\ Len(val) = Cardinality(live)
              /\ {<<r.campaign_id, r.data_type, r.id>> : r \in Range(val)} = live
              /\ \A r \in Range(val) :
                    hashes[<<r.campaign_id, r.data_type, r.id>>] =
                        [r EXCEPT !.content = JsonDumps(@), !.tags = JsonDumps(@)]

\* C12: after any sequential series of store, update and delete calls,
\* get_campaign_data(c, t) returns exactly the records created under c with
\* data type t and not deleted, get_campaign_data(c) those of all data types
\* of c; a record whose delete returned True is in neither result and its
\* hash no longer exists.
C12_GetReturnsLiveRecords == [][C12_Step]_vars

\* two records of two data types exist in one campaign and the read of one
\* data type returned one of them
C12_Witness ==
    /\ ret[1].op = "get"
    /\ ret[1].data_type # NoArg
    /\ Len(ret[1].val) = 1
    /\ Cardinality(LiveKeys(ret[1].cid, NoArg)) = 2

\* the step changes a campaign record or a campaign index set
CampaignChanged ==
    \/ hashes' # hashes
    \/ campaign_index' # campaign_index
    \/ campaign_type' # campaign_type
\* the call in progress has found the key of its record
Found == "key" \in DOMAIN loc[1]
\* no stored chunk is in the index set of every filter given
NoChunkMatches(filters) ==
    \A k \in ScanChunks :
        \/ "rulebook" \in DOMAIN filters /\ k \notin Smembers(rulebook_idx, filters.rulebook)
        \/ "system" \in DOMAIN filters /\ k \notin Smembers(system_idx, filters.system)
        \/ "content_type" \in DOMAIN filters
              /\ k \notin Smembers(ctype_idx, filters.content_type)

C13_Step ==
    \* update and delete write only once they have found a record under the
    \* pair (campaign, id) they were given, and a call that has written
    \* returns True: a call that returns False has left everything unchanged
    /\ (StepOf("update") /\ CampaignChanged) => Returns("update", TRUE)
    /\ (StepOf("delete") /\ CampaignChanged) => Found
    /\ (StepOf("delete") /\ Found) =>
          \/ pc'[1] # "idle" /\ "key" \in DOMAIN loc'[1] /\ loc'[1].key = loc[1].key
          \/ Returns("delete", TRUE)
    /\ \A op \in {"update", "delete"} :
          (StepOf(op) /\ pc[1] # "idle" /\ Found) =>
              /\ loc[1].key[1] = loc[1].cid
              /\ loc[1].key \in CampaignKeys
              /\ (Returns(op, TRUE) \/ ~CampaignChanged) =>
                    /\ "id" \in DOMAIN hashes[loc[1].key]
                    /\ hashes[loc[1].key].id = loc[1].did
    /\ \A op \in {"update", "delete"} : Returns(op, TRUE) => Found
    \* a read of a campaign without records returns the empty list
    /\ (GetStep /\ LiveKeys(ret'[1].cid, NoArg) = {}) => ret'[1].val = <<>>
    \* a search whose filters no chunk matches returns the empty list
    /\ (/\ last.op = "none"
        /\ last'.op \in {"vector_search", "keyword_search"}
        /\ NoChunkMatches(last'.filters)) => last'.results = <<>>

\* C13: not-found is a value, not an error.  update_campaign_data and
\* delete_campaign_data for a (campaign, id) pair that names no stored record
\* return False and leave every record and index set unchanged;
\* get_campaign_data for an unknown campaign, and vector_search or
\* keyword_search when no chunk matches the filters, return an empty list.
C13_NotFoundIsEmpty == [][C13_Step]_vars

\* a delete returned False while both campaigns hold a record, still indexed
C13_Witness ==
    /\ ret[1] = [op |-> "delete", val |-> FALSE]
    /\ AllIdle
    /\ \A c \in Campaigns :
          \E k \in campaign_index[c] :
              /\ HExists(k)
              /\ k \in campaign_type[<<k[1], k[2]>>]

\* ---- _split_section_into_chunks ----
\* the piece is one paragraph: it holds no paragraph separator
SingleParagraph(piece) == ~Contains(ParagraphSep, piece)

\* C15: every piece returned by _split_section_into_chunks has length at most
\* max_chunk_size, unless the piece is one single paragraph that is itself
\* longer than max_chunk_size.
C15_ChunkSizeBounded ==
    last.op = "split_section" =>
        \A k \in DOMAIN last.pieces :
            \/ Len(last.pieces[k]) <= last.max_chunk_size
            \/ SingleParagraph(last.pieces[k])

\* ---- identify_sections ----
\* the section of outline entry i in the returned list, when it has one
HasSection(toc, pages, i) == EntryContent(toc, pages, i) # <<>>
SectionOfEntry(sections, toc, pages, i) == sections[Len(SectionsUpTo(toc, pages, i))]

\* the later entries of the outline at the level of entry i or above it
LaterAtOrAbove(toc, i) == {j \in (i + 1)..Len(toc) : toc[j].level <= toc[i].level}

\* the end page by the rule of the specification
ClaimedEndPage(toc, i, total_pages) ==
    IF LaterAtOrAbove(toc, i) = {} THEN total_pages
    ELSE toc[CHOOSE j \in LaterAtOrAbove(toc, i) :
                \A g \in LaterAtOrAbove(toc, i) : j <= g].page - 1

\* C19: the section of outline entry i with level L ends on the page before
\* the start page of the first later entry whose level is at most L, looking
\* at all later entries, and on the last page of the document when there is
\* no such entry.
C19_EndPageFromNextEntryAtLevel ==
    (last.op = "identify_sections" /\ ~last.raised) =>
        \A i \in 1..Len(last.toc) :
            HasSection(last.toc, last.pages, i) =>
                SectionOfEntry(last.sections, last.toc, last.pages, i).page_end
                    = ClaimedEndPage(last.toc, i, Len(last.pages))

\* an entry of the outline has no page
HasNoPage(toc) == \E i \in 1..Len(toc) : toc[i].page = NoPage

\* entry i has a page, its end page does not rest on an entry without one,
\* and its page range holds text
ResolvedWithText(toc, pages, i) ==
    /\ toc[i].page # NoPage
    /\ ~EndPageRaises(toc, i)
    /\ pages # <<>>
    /\ ExtractSectionContent(pages, toc[i].page, EndPage(toc, i, Len(pages))) # <<>>

\* C20: identify_sections does not fail on an outline entry whose page is
\* None: the call completes, and the sections of the other entries are
\* still produced.
C20_NoPageEntryIsDegenerate ==
    (last.op = "identify_sections" /\ HasNoPage(last.toc)) =>
        /\ ~last.raised
        /\ \A i \in 1..Len(last.toc) :
              ResolvedWithText(last.toc, last.pages, i) =>
                  \E k \in DOMAIN last.sections :
                      /\ last.sections[k].title = last.toc[i].title
                      /\ last.sections[k].page_start = last.toc[i].page

\* ---- create_chunks and the stored chunks ----
\* C17: the chunks create_chunks produces for one document have pairwise
\* distinct ids, so that storing them leaves one stored record per chunk.
C17_ChunkIdsUnique ==
    /\ last.op = "create_chunks" =>
          \A j, k \in DOMAIN last.chunks :
              last.chunks[j].id = last.chunks[k].id => j = k
    /\ (last.op = "store_rulebook_content" /\ last.result = "success") =>
          Cardinality(ScanChunks) = Len(last.content)

\* C18: a chunk stored by store_rulebook_content and read back through a
\* search result has every field of the stored chunk unchanged, the table
\* list included.  Of chunks stored under one id the last is the one kept.
C18_StoredChunkRoundTrip ==
    last.op = "search_stored" =>
        \A k \in DOMAIN last.stored :
            (\A j \in DOMAIN last.stored : last.stored[j].id = last.stored[k].id => j <= k)
                => \E r \in DOMAIN last.content_chunks :
                       last.content_chunks[r] = last.stored[k]

\* C16: ingesting the same document again is idempotent: create_chunks gives
\* the same ids in the same order, and store_rulebook_content with the same
\* chunks leaves the chunk records and every index set as they were.
C16_Step ==
    (last.op = "store_rulebook_content" /\ last'.op = "store_again") =>
        /\ ChunkIdsOf(last'.chunks_again) = ChunkIdsOf(last.content)
        /\ chunks' = chunks
        /\ rulebook_idx' = rulebook_idx
        /\ system_idx' = system_idx
        /\ ctype_idx' = ctype_idx
RECURSIVE DocumentLines(_, _)
DocumentLines(pages, n) ==
    IF n = 0 THEN <<>>
    ELSE LET NonBlank(line) == line # <<>>
             raw == SplitStr(pages[n].text, <<NL>>)
         IN  DocumentLines(pages, n - 1)
             \o SelectSeq([k \in 1..Len(raw) |-> Strip(raw[k])], NonBlank)

\* the positions of the heading lines
HeadingPositions(lines) == {k \in 1..Len(lines) : IsHeading(lines[k])}

\* the non-heading lines after heading k up to the next heading
LinesUnder(lines, k) ==
    LET later == {h \in HeadingPositions(lines) : h > k}
        stop == IF later = {} THEN Len(lines) + 1
                ELSE CHOOSE h \in later : \A g \in later : h <= g
    IN  SubSeq(lines, k + 1, stop - 1)

\* C21: without outline one level-1 section is emitted per heading line, in
\* document order, also for a heading followed by no content line and for
\* the section open at the end of the document; the content of a section is
\* the non-blank lines between its heading and the next heading, and lines
\* before the first heading are in no section.
C21_SectionPerHeading ==
    last.op = "identify_sections_from_text" =>
        LET lines == DocumentLines(last.pages, Len(last.pages))
            heads == HeadingPositions(lines)
            HeadingAt(n) == CHOOSE k \in heads : Cardinality({h \in heads : h <= k}) = n
        IN  /\ Len(last.sections) = Cardinality(heads)
            /\ \A n \in DOMAIN last.sections :
                  /\ last.sections[n].title = lines[HeadingAt(n)]
                  /\ last.sections[n].level = 1
                  /\ last.sections[n].content
                        = JoinStr(LinesUnder(lines, HeadingAt(n)), <<NL>>)


\* ---- EmbeddingService ----
\* C22: batch_embed returns one vector per text, in the order of the texts,
\* and a text the model fails on empties only its own position: every
\* non-blank text the model does not fail on holds its vector, whether it
\* shares a model batch with the failing text or not.
C22_FailureIsolatedPerItem ==
    LET call == embedding_service.call
    IN  call.op = "batch_embed" =>
            /\ Len(call.embeddings) = Len(call.texts)
            /\ \A i \in DOMAIN call.texts :
                  /\ IsBlankText(call.texts[i]) => call.embeddings[i] = <<>>
                  /\ ~IsBlankText(call.texts[i]) /\ Strip(call.texts[i]) \notin call.bad
                        => call.embeddings[i] = Encode(Strip(call.texts[i]))


\* C23: with caching enabled, a text that a call has returned a vector for
\* (blank-padded texts included) is answered by every later generate_embedding
\* or batch_embed from the cache, with the same vector and without the text
\* being handed to the model; a blank text is never handed to the model and
\* never enters the cache.
C23_CachedTextNotEncodedAgain ==
    LET call == embedding_service.call
    IN  call.op \in {"generate_embedding", "batch_embed"} =>
            /\ \A i \in DOMAIN call.texts :
                  /\ call.before.cache_embeddings /\ call.texts[i] \in call.before.embedded
                        => /\ call.embeddings[i] = Encode(Strip(call.texts[i]))
                           /\ i \notin call.encoded
                  /\ IsBlankText(call.texts[i]) => i \notin call.encoded
            /\ \A k \in DOMAIN embedding_service.cache :
                  \A text \in EmbedTexts :
                      IsBlankText(text) =>
                          embedding_service.cache[k].key
                              \notin {TextHash(text), TextHash(Strip(text))}


\* C24: with caching enabled, when batch_embed has returned the cache file
\* holds every entry of the in-memory cache, so that a service constructed
\* over the file starts with exactly the entries of the cache.
C24_CacheFileHoldsCache ==
    embedding_service.call.op = "batch_embed" /\ embedding_service.cache_embeddings =>
        NewService(TRUE, embedding_service.file).cache = embedding_service.cache


\* the ceiling of the cache (the default max_size of cleanup_cache, scaled)
CacheCeiling == 2

\* C25: the cache is bounded.  Once a generate_embedding or batch_embed call
\* has returned, the cache holds no more entries than the ceiling; and
\* cleanup_cache(max_size) on a cache of more than max_size entries leaves
\* the most recently added entries, at most max_size of them, and leaves a
\* cache of at most max_size entries unchanged.
C25_CacheBounded ==
    LET call == embedding_service.call
        cache == embedding_service.cache
    IN  /\ call.op = "none" => Len(cache) <= CacheCeiling
        /\ call.op = "cleanup_cache" =>
              IF Len(call.before) > call.max_size
              THEN /\ Len(cache) <= call.max_size
                   /\ cache = SubSeq(call.before, Len(call.before) - Len(cache) + 1,
                                     Len(call.before))
              ELSE cache = call.before


\* ---- malformed records ----
\* a record either search can read in full
WellFormed(key, dimension) ==
    "data" \in DOMAIN chunks[key] =>
        /\ JsonParses(chunks[key].data)
        /\ ~DictToChunkRaises(ChunkDict(key))
        /\ Len(ChunkDict(key).embedding) \in {0, dimension}
WellFormedKeys(keys, dimension) ==
    LET Keep(key) == WellFormed(key, dimension)
    IN  SelectSeq(keys, Keep)

\* C26: a stored record that is malformed (data that does not parse, a
\* vector of the wrong length, a missing field) never aborts a search:
\* vector_search and keyword_search still return every result they return
\* over the other records.
C26_MalformedRecordSkipped ==
    LET StillReturned(expected) == Range(expected) \subseteq Range(last.results)
    IN  /\ last.op = "vector_search" /\ "keys" \in DOMAIN last =>
              StillReturned(VectorSearchStoredResults(
                                WellFormedKeys(last.keys, Len(last.query_embedding)),
                                last.query_embedding, last.max_results,
                                last.similarity_threshold))
        /\ last.op = "keyword_search" /\ "keys" \in DOMAIN last =>
              StillReturned(KeywordSearchStoredResults(
                                WellFormedKeys(last.keys, Len(Encode(last.query))), last.query))


\* ---- index sets against the stored records ----
\* the stored record of a key has the value in the field of the dimension
StoredField(key, dimension, value) ==
    chunks[key] # NoHash /\ chunks[key][dimension] = value

\* C27: a chunk key is in the index set rulebook:{r}, system:{s} or
\* content_type:{t} exactly when the stored record of the key has that
\* rulebook, system or content_type, also after an id was stored again with
\* other values; and _get_filtered_chunks returns no key whose stored field
\* differs from the value of a filter.
C27_IndexMatchesStoredFields ==
    /\ \A key \in ChunkKeys :
          /\ \A r \in Rulebooks :
                key \in IndexSet("rulebook", r) <=> StoredField(key, "rulebook", r)
          /\ \A s \in Systems :
                key \in IndexSet("system", s) <=> StoredField(key, "system", s)
          /\ \A t \in ContentTypes :
                key \in IndexSet("content_type", t) <=> StoredField(key, "content_type", t)
    /\ last.op = "get_filtered_chunks" =>
          \A n \in DOMAIN last.keys : \A d \in DOMAIN last.filters :
              StoredField(last.keys[n], d, last.filters[d])


\* ---- the ingestion pipeline ----
\* the store holds no record and no index entry
StoreEmpty ==
    /\ ScanChunks = {}
    /\ \A r \in DOMAIN rulebook_idx : rulebook_idx[r] = {}
    /\ \A s \in DOMAIN system_idx : system_idx[s] = {}
    /\ \A t \in DOMAIN ctype_idx : ctype_idx[t] = {}

\* the last position of the chunk list that holds a chunk of the key
LastPositionOf(content, key) ==
    CHOOSE p \in DOMAIN content :
        /\ ChunkKey(content[p].id) = key
        /\ \A q \in DOMAIN content : ChunkKey(content[q].id) = key => q <= p

\* C28: in one ingestion the stages run in the order extraction,
\* identification, chunking, embedding, storage; nothing is in the store
\* before batch_embed has returned; every record in the store carries the
\* vector batch_embed returned at the position of its chunk; and when a
\* stage before storage has failed the store holds no record of the document.
C28_StagesInOrder ==
    last.op = "add_rulebook" =>
        /\ last.done = SubSeq(Stages, 1, Len(last.done))
        /\ last.stage # "failed" => last.stage = last.done[Len(last.done)]
        /\ "storage" \notin Range(last.done) => StoreEmpty
        /\ "storage" \in Range(last.done) =>
              /\ embedding_service.call.op = "batch_embed"
              /\ embedding_service.call.embeddings = last.data.embeddings
              /\ Len(last.data.embeddings) = Len(last.data.chunks)
        /\ \A key \in ScanChunks :
              LET p == LastPositionOf(last.data.chunks, key)
              IN  /\ ChunkDict(key).content = last.data.chunks[p].content
                  /\ ChunkDict(key).embedding = last.data.embeddings[p]

\* a document of two chunks with different vectors has been stored, one of
\* them a vector of the cache and one a vector the model computed
C28_Witness ==
    /\ last.op = "add_rulebook"
    /\ last.stage = "storage"
    /\ Cardinality(ScanChunks) >= 2
    /\ Cardinality(Range(last.data.embeddings)) >= 2
    /\ <<>> \notin Range(last.data.embeddings)
    /\ embedding_service.call.encoded # {}
    /\ embedding_service.call.encoded # DOMAIN last.data.chunks


\* ---- update and delete of one record, interleaved ----
\* a hash that update_campaign_data wrote on a key that held no record: the
\* fields of its mapping, without id
PartialRecord(key) == HExists(key) /\ "id" \notin DOMAIN hashes[key]

\* C29: when delete_campaign_data has returned True and no call is in
\* progress, no key holds a partial record: an update that ran alongside
\* the delete has not written its fields to the deleted key.
C29_DeleteLeavesNoPartialRecord ==
    AllIdle /\ (\E p \in Procs : ret[p] = DelRet(p, TRUE)) =>
        \A key \in CampaignKeys : ~PartialRecord(key)


\* ---- concurrent updates of one record ----
\* one record was stored and then every client has made one update of it,
\* each update returning True, and nothing else was called
EveryClientUpdatedOnce ==
    /\ AllIdle
    /\ uuids = 1
    /\ calls = 1 + NumProcs
    /\ \A p \in Procs : ret[p] = UpdRet(p, TRUE)

\* C30: no update is lost.  When the updates of all clients on one record
\* have returned True, in whatever interleaving, the stored version is the
\* version of the new record, 1, plus the number of the updates.
C30_NoLostUpdate ==
    EveryClientUpdatedOnce =>
        \A key \in CampaignKeys :
            HExists(key) => Version(hashes[key]) = 1 + NumProcs

====
